---------------------------- MODULE Spec2Model ----------------------------
(***************************************************************************)
(* A model of the portfolio accounting program in src/main.py: the nested  *)
(* date index and its closest-date lookup, the average-cost positions,     *)
(* the trade ledger, the snapshot store and the replay loop of __main__.   *)
(*                                                                         *)
(* Numbers.  Quantities are integers.  The prices and the money fields     *)
(* of the program (cost, cash, value, profit) are Python floats; they are  *)
(* modelled as binary64 values, every operation rounded as the processor   *)
(* rounds it, so that an equality of the model is an equality of the       *)
(* floats the program holds.                                               *)
(*                                                                         *)
(* Dates.  The program keeps a date either as the string of the CSV cell   *)
(* or as the (year, month, day) triple get_date parses from it; the model  *)
(* keeps the triple <<y, m, d>> and assumes the cells are written in the   *)
(* one canonical form YYYY-MM-DD, so that equal strings are equal triples. *)
(*                                                                         *)
(* Objects.  Python passes the live Inventory by reference and the         *)
(* snapshot store keeps copy.deepcopy of it.  heap maps an object          *)
(* reference to the Inventory it holds; the live inventory is the object   *)
(* at reference CurrRef and the copy taken for a date is the object at     *)
(* the reference that date names.                                          *)
(***************************************************************************)
EXTENDS Integers, Naturals, Sequences, FiniteSets, TLC

VARIABLES
    price_daily,        \* src/main.py:36   date -> [ticker -> price]
    update_dates,       \* src/main.py:35   the dates of PRICES_FILE not yet popped
    update_date,        \* src/main.py:1016 the date the replay cursor is at
    rows,               \* the rows of TRANSACTIONS_FILE read so far, in order
    pc,                 \* the position of __main__ in the replay
    loop_i,             \* the index of the trailing for loop (1022)
    heap,               \* object reference -> Inventory (ticker -> Asset)
    inventory_snapshot, \* InventorySnapshot.snapshot: date -> object reference
    buy_history,        \* TradeHistory.buy_history: <<y, m, d, ticker>> -> Buy
    sell_history,       \* TradeHistory.sell_history: <<y, m, d, ticker>> -> Sell
    applied,            \* history: the trades process_trade has executed, in order
    q                   \* the call a caller makes (its arguments, its result)

vars == <<price_daily, update_dates, update_date, rows, pc, loop_i, heap,
          inventory_snapshot, buy_history, sell_history, applied, q>>

---------------------------------------------------------------------------
(* Bounds of the model. *)

\* The longest transaction file the replay reads.
MaxTx == 3

\* The most dates a date index handed to the lookup holds.
MaxIdx == 3

\* The most calls the free-order harness makes.
MaxCalls == 3

---------------------------------------------------------------------------
(* Binary64 arithmetic for the float fields.  A finite float is the record *)
(* [s, m, e] of the value s * m * 2^e: s is the sign (0 for zero), m the   *)
(* odd magnitude as a little-endian sequence of 14-bit limbs (<<>> for     *)
(* zero) and e the exponent.  Every operation computes the exact result    *)
(* and rounds it to 53 significant bits, ties to even, as IEEE 754 does.   *)
(* The sign of a zero is not kept, and no value of the model leaves the    *)
(* range of the normal numbers.                                            *)

Max(S) == CHOOSE x \in S : \A z \in S : z <= x
Min(S) == CHOOSE x \in S : \A z \in S : x <= z

\* The base of the limbs.
Base == 16384

\* The natural number of a limb sequence without its high zero limbs.
RECURSIVE BTrim(_)
BTrim(a) ==
    IF a = <<>> THEN a
    ELSE IF a[Len(a)] = 0 THEN BTrim(SubSeq(a, 1, Len(a) - 1))
    ELSE a

RECURSIVE BOfInt(_)
BOfInt(n) == IF n = 0 THEN <<>> ELSE <<n % Base>> \o BOfInt(n \div Base)

\* a + b + c, limb by limb with the carry c.
RECURSIVE BAddC(_, _, _)
BAddC(a, b, c) ==
    IF a = <<>> THEN (IF c = 0 THEN b ELSE IF b = <<>> THEN <<c>> ELSE BAddC(<<0>>, b, c))
    ELSE IF b = <<>> THEN (IF c = 0 THEN a ELSE BAddC(a, <<0>>, c))
    ELSE <<(Head(a) + Head(b) + c) % Base>>
         \o BAddC(Tail(a), Tail(b), (Head(a) + Head(b) + c) \div Base)

\* a - b - c for a >= b + c, limb by limb with the borrow c.
RECURSIVE BSubC(_, _, _)
BSubC(a, b, c) ==
    IF a = <<>> THEN <<>>
    ELSE IF b = <<>> THEN (IF c = 0 THEN a ELSE BSubC(a, <<0>>, c))
    ELSE <<(Head(a) - Head(b) - c) % Base>>
         \o BSubC(Tail(a), Tail(b), IF Head(a) - Head(b) - c < 0 THEN 1 ELSE 0)

BSub(a, b) == BTrim(BSubC(a, b, 0))

\* -1, 0, 1 as a < b, a = b, a > b, from the high limb down.
RECURSIVE BCmp(_, _)
BCmp(a, b) ==
    IF Len(a) # Len(b) THEN (IF Len(a) < Len(b) THEN -1 ELSE 1)
    ELSE IF a = <<>> THEN 0
    ELSE IF a[Len(a)] # b[Len(a)] THEN (IF a[Len(a)] < b[Len(a)] THEN -1 ELSE 1)
    ELSE BCmp(SubSeq(a, 1, Len(a) - 1), SubSeq(b, 1, Len(b) - 1))

\* a * k + c for a limb k.
RECURSIVE BMulSmallC(_, _, _)
BMulSmallC(a, k, c) ==
    IF a = <<>> THEN (IF c = 0 THEN <<>> ELSE <<c>>)
    ELSE <<(Head(a) * k + c) % Base>>
         \o BMulSmallC(Tail(a), k, (Head(a) * k + c) \div Base)

BMulSmall(a, k) == IF k = 1 THEN a ELSE BTrim(BMulSmallC(a, k, 0))

RECURSIVE BMul(_, _)
BMul(a, b) ==
    IF a = <<>> \/ b = <<>> THEN <<>>
    ELSE IF Len(a) > Len(b) THEN BMul(b, a)
    ELSE BAddC(BMulSmall(b, Head(a)),
               IF Len(a) = 1 THEN <<>> ELSE <<0>> \o BMul(Tail(a), b), 0)

\* The number of bits of a natural number.
BitLen(a) ==
    IF a = <<>> THEN 0
    ELSE LET top == a[Len(a)]
         IN  14 * (Len(a) - 1)
             + (IF top < 128
                THEN (IF top < 8 THEN (IF top < 2 THEN 1 ELSE IF top < 4 THEN 2 ELSE 3)
                      ELSE IF top < 32 THEN (IF top < 16 THEN 4 ELSE 5)
                      ELSE IF top < 64 THEN 6 ELSE 7)
                ELSE (IF top < 1024 THEN (IF top < 256 THEN 8 ELSE IF top < 512 THEN 9 ELSE 10)
                      ELSE IF top < 4096 THEN (IF top < 2048 THEN 11 ELSE 12)
                      ELSE IF top < 8192 THEN 13 ELSE 14))

\* The number of low zero bits of a natural number other than 0.
RECURSIVE LowZeros(_)
LowZeros(a) ==
    IF Head(a) = 0 THEN 14 + LowZeros(Tail(a))
    ELSE CHOOSE k \in 0..13 : Head(a) % 2^(k + 1) = 2^k

\* a * 2^k
BShl(a, k) ==
    IF a = <<>> \/ k = 0 THEN a
    ELSE [i \in 1..(k \div 14) |-> 0] \o BMulSmall(a, 2^(k % 14))

\* a \div 2^k: the limbs of a * 2^(14 - (k % 14)) above the low ones.
BShr(a, k) ==
    IF k = 0 THEN a
    ELSE LET up == BMulSmall(a, 2^(14 - (k % 14)))
         IN  SubSeq(up, (k \div 14) + 2, Len(up))

\* Bit i of a natural number, bit 0 the lowest.
BBit(a, i) == (a[(i \div 14) + 1] \div 2^(i % 14)) % 2

\* The integer nearest to a / 2^k for k > 0, the even one of two as near:
\* a \div 2^k, plus 1 when the remainder is over half of 2^k, or is the half
\* and a \div 2^k is odd.
BRoundShr(a, k) ==
    BAddC(BShr(a, k), <<>>,
          IF BBit(a, k - 1) = 1 /\ (LowZeros(a) < k - 1 \/ BBit(a, k) = 1)
          THEN 1 ELSE 0)

\* An estimate, never below it, of the digit r \div d for r < d * Base: what
\* the high limbs of r and the high limb of d give.
BDigit(r, d) ==
    IF Len(r) < Len(d) THEN 0
    ELSE LET est == ((IF Len(r) > Len(d) THEN r[Len(d) + 1] ELSE 0) * Base + r[Len(d)])
                        \div d[Len(d)]
         IN  IF est < Base THEN est ELSE Base - 1

\* Long division by d of the limbs a under the remainder r so far: the
\* digits of the quotient, above one low limb that is 1 when the division
\* leaves a remainder and 0 when it does not.  A step lowers the estimate of
\* its digit until the digit times d fits into the remainder.
RECURSIVE BDivAt(_, _, _)
RECURSIVE BDivStep(_, _, _, _)
BDivStep(a, d, r, digit) ==
    IF digit = 0 THEN BDivAt(a, d, r) \o <<0>>
    ELSE LET p == BMulSmall(d, digit)
         IN  IF BCmp(p, r) > 0 THEN BDivStep(a, d, r, digit - 1)
             ELSE BDivAt(a, d, BSub(r, p)) \o <<digit>>

BDivAt(a, d, r) ==
    IF a = <<>> THEN <<IF r = <<>> THEN 0 ELSE 1>>
    ELSE LET rem == BTrim(<<a[Len(a)]>> \o r)
         IN  BDivStep(SubSeq(a, 1, Len(a) - 1), d, rem, BDigit(rem, d))

RZero == [s |-> 0, m |-> <<>>, e |-> 0]

\* Round to nearest, ties to even: the float nearest to s * n * 2^e.  A
\* magnitude of more than 53 bits is rounded to 53; the low zero bits of the
\* magnitude go into the exponent.
RECURSIVE RRound(_, _, _)
RRound(s, n, e) ==
    IF n = <<>> THEN RZero
    ELSE LET bits == BitLen(n)
             zeros == LowZeros(n)
         IN  IF bits > 53
             THEN RRound(s, BRoundShr(n, bits - 53), e + bits - 53)
             ELSE [s |-> s, m |-> BShr(n, zeros), e |-> e + zeros]

\* float(i) of an integer
RInt(i) == RRound(IF i < 0 THEN -1 ELSE 1, BOfInt(IF i < 0 THEN -i ELSE i), 0)

RNeg(a) == [a EXCEPT !.s = -a.s]

\* a + b: the magnitudes are brought to the lower exponent and added, or the
\* smaller taken from the larger, and the exact result is rounded.
RAdd(a, b) ==
    IF a.s = 0 THEN b
    ELSE IF b.s = 0 THEN a
    ELSE LET e == IF a.e < b.e THEN a.e ELSE b.e
             x == BShl(a.m, a.e - e)
             y == BShl(b.m, b.e - e)
             c == IF a.s = b.s THEN 1 ELSE BCmp(x, y)
         IN  RRound(IF c >= 0 THEN a.s ELSE b.s,
                    IF a.s = b.s THEN BAddC(x, y, 0)
                    ELSE IF c >= 0 THEN BSub(x, y) ELSE BSub(y, x),
                    e)

RSub(a, b) == RAdd(a, RNeg(b))

RMul(a, b) == RRound(a.s * b.s, BMul(a.m, b.m), a.e + b.e)

\* a / b for b other than 0.  The dividend is scaled for a quotient of 55
\* bits or more, and both are scaled so that the high limb of the divisor has
\* its high bit set; the low limb that BDivAt appends decides the rounding
\* as the exact quotient would.
RDiv(a, b) ==
    IF a.s = 0 THEN RZero
    ELSE LET k0 == 55 + BitLen(b.m) - BitLen(a.m)
             k == IF k0 > 0 THEN k0 ELSE 0
             sh == (14 - (BitLen(b.m) % 14)) % 14
         IN  RRound(a.s * b.s,
                    BTrim(BDivAt(BShl(a.m, k + sh), BShl(b.m, sh), <<>>)),
                    a.e - b.e - k - 14)

\* a < b
RLess(a, b) == RSub(a, b).s < 0

EmptyMap == [x \in {} |-> 0]

\* dict.setdefault(k, v): the stored value wins, a new key is added.
SetDefault(m, k, v) == m @@ (k :> v)

---------------------------------------------------------------------------
(* Dates and the nested date index {year: {month: {day: ...}}}.  The code  *)
(* builds every level with one setdefault chain, so no inner dictionary is *)
(* ever empty and the index is its set of <<y, m, d>> keys.                *)

Years(D) == {k[1] : k \in D}
Months(D, y) == {k[2] : k \in {x \in D : x[1] = y}}
Days(D, y, m) == {k[3] : k \in {x \in D : x[1] = y /\ x[2] = m}}

\* calendar.monthrange(year, month)[1]
IsLeap(y) == (y % 4 = 0) /\ ((y % 100 # 0) \/ (y % 400 = 0))
monthrange(y, m) ==
    IF m = 2 THEN (IF IsLeap(y) THEN 29 ELSE 28)
    ELSE IF m \in {4, 6, 9, 11} THEN 30 ELSE 31

\* (year, month, day) lexicographic order
DateLe(a, b) ==
    \/ a[1] < b[1]
    \/ a[1] = b[1] /\ a[2] < b[2]
    \/ a[1] = b[1] /\ a[2] = b[2] /\ a[3] <= b[3]
DateLt(a, b) == DateLe(a, b) /\ a # b

NoDate == <<0, 0, 0>>
Returned(dt) == [err |-> "none", date |-> dt]
Raised(e) == [err |-> e, date |-> NoDate]

\* The month step of the lookup (src/main.py:477-482): <<year, month>> or an error.
ClosestMonth(y1, month, D) ==
    LET ms == {k \in Months(D, y1) : k <= month}
    IN  IF ms # {} THEN Returned(<<y1, Max(ms), 0>>)
        ELSE LET y2 == Max({k \in Years(D) : k <= y1}) - 1
             IN  IF y2 \notin Years(D) THEN Raised("KeyError")
                 ELSE LET ms2 == {k \in Months(D, y2) : k <= 12}
                      IN  IF ms2 = {} THEN Raised("ValueError")
                          ELSE Returned(<<y2, Max(ms2), 0>>)

\* A variant of ClosestDayPrevMonth that falls back to the latest indexed
\* month before the month, whether or not it is the month before.
ClosestDayPrevMonth_AnyEarlier(y, m, day, D) ==
    LET m0 == Max({k \in Months(D, y) : k <= m})
        earlier == {k \in Months(D, y) : k < m0}
    IN  IF earlier = {} THEN Raised("KeyError")
        ELSE Returned(<<y, Max(earlier), Max(Days(D, y, Max(earlier)))>>)

\* A variant of ClosestDayPrevMonth that, when the month before is not
\* indexed, returns the first indexed day of the month itself.
ClosestDayPrevMonth_Clamp(y, m, day, D) ==
    LET m1 == Max({k \in Months(D, y) : k <= m}) - 1
    IN  IF m1 \notin Months(D, y) THEN Returned(<<y, m, Min(Days(D, y, m))>>)
        ELSE LET ds2 == {k \in Days(D, y, m1) : k <= monthrange(y, m1)}
             IN  IF ds2 = {} THEN Raised("ValueError")
                 ELSE Returned(<<y, m1, Max(ds2)>>)

\* The day step of the lookup (src/main.py:483-488).
ClosestDayPrevMonth(y, m, day, D) ==
    LET m1 == Max({k \in Months(D, y) : k <= m}) - 1
    IN  IF m1 \notin Months(D, y) THEN Raised("KeyError")
        ELSE LET ds2 == {k \in Days(D, y, m1) : k <= monthrange(y, m1)}
             IN  IF ds2 = {} THEN Raised("ValueError")
                 ELSE Returned(<<y, m1, Max(ds2)>>)

\* A variant of ClosestDay that takes the month's last indexed day, whatever
\* the target day.
ClosestDay_AnyDay(y, m, day, D) ==
    Returned(<<y, m, Max(Days(D, y, m))>>)

ClosestDay(y, m, day, D) ==
    LET ds == {k \in Days(D, y, m) : k <= day}
    IN  IF ds # {} THEN Returned(<<y, m, Max(ds)>>)
        ELSE ClosestDayPrevMonth(y, m, day, D)

get_closest_available_date(year, month, day, D) ==
    LET ys == {k \in Years(D) : k <= year}
    IN  IF ys = {} THEN Raised("ValueError")
        ELSE LET ym == ClosestMonth(Max(ys), month, D)
             IN  IF ym.err # "none" THEN ym
                 ELSE ClosestDay(ym.date[1], ym.date[2], day, D)

\* datetime(year, month, day) (src/main.py:515-516) raises ValueError for a
\* day that the month does not have.
ValidDate(d) == d[1] \in 1..9999 /\ d[2] \in 1..12 /\ d[3] \in 1..monthrange(d[1], d[2])

\* date_start += relativedelta(days=1) (src/main.py:520)
NextDay(d) ==
    IF d[3] < monthrange(d[1], d[2]) THEN <<d[1], d[2], d[3] + 1>>
    ELSE IF d[2] < 12 THEN <<d[1], d[2] + 1, 1>>
    ELSE <<d[1] + 1, 1, 1>>

\* The while loop of get_all_dates (src/main.py:518-520).
RECURSIVE DatesFrom(_, _)
DatesFrom(date_start, date_end) ==
    IF DateLe(date_start, date_end)
    THEN <<date_start>> \o DatesFrom(NextDay(date_start), date_end)
    ELSE <<>>

\* get_all_dates (src/main.py:515-521)
get_all_dates(start, end) ==
    IF ~ValidDate(start) \/ ~ValidDate(end)
    THEN [err |-> "ValueError", dates |-> <<>>]
    ELSE [err |-> "none", dates |-> DatesFrom(start, end)]

---------------------------------------------------------------------------
(* The inputs: the tickers and dates of PRICES_FILE, the rows of           *)
(* TRANSACTIONS_FILE.                                                      *)

\* all_tickers (src/main.py:976): the header of PRICES_FILE.
all_tickers == {"AAPL", "MSFT"}

\* The calendar the files of the model draw their dates from, in date order.
Calendar == << <<2020, 1, 2>>, <<2020, 1, 3>>, <<2020, 2, 3>> >>
CalendarDates == {Calendar[i] : i \in 1..Len(Calendar)}

\* float(row[i]) (src/main.py:986) of a cell written with two decimals, in
\* hundredths: the float nearest to the decimal, which is the quotient of
\* the two integers as the processor rounds it.
FloatOfCell(hundredths) == RDiv(RInt(hundredths), RInt(100))

\* The cells of the model's price files, in hundredths.
CloseCell(date, ticker) ==
    IF ticker = "AAPL"
    THEN (IF date = <<2020, 1, 2>> THEN 10000
          ELSE IF date = <<2020, 1, 3>> THEN 11000 ELSE 9000)
    ELSE (IF date = <<2020, 1, 2>> THEN 4005
          ELSE IF date = <<2020, 1, 3>> THEN 3004 ELSE 3004)

\* The closing prices of the model's price files.
ClosePrice(date, ticker) == FloatOfCell(CloseCell(date, ticker))

\* The subsequences of a sequence, order kept: the rows a price file holds.
RECURSIVE SubSeqs(_)
SubSeqs(s) ==
    IF s = <<>> THEN {<<>>}
    ELSE LET rest == SubSeqs(Tail(s))
         IN  rest \cup {<<Head(s)>> \o r : r \in rest}

SeqRange(s) == {s[i] : i \in 1..Len(s)}

Quantities == {5, 10}
OrderTypes == {"BUY", "SELL"}

\* A row of TRANSACTIONS_FILE: date, ticker, qty, order type (row[0..3]).
Rows == [date : CalendarDates, ticker : all_tickers,
         qty : Quantities, order_type : OrderTypes]

NoRow == [date |-> NoDate, ticker |-> "", qty |-> 0, order_type |-> ""]

---------------------------------------------------------------------------
(* Asset, Inventory, Buy, Sell.                                            *)

\* Asset.__init__ (src/main.py:236-243)
NewAsset == [qty |-> 0, cost |-> RZero, value |-> RZero, cash |-> RZero]

\* Asset.avg_price (src/main.py:256)
avg_price(a) == IF a.qty # 0 THEN RDiv(a.cost, RInt(a.qty)) ELSE RZero

\* Asset.profit (src/main.py:267)
profit(a) == RSub(a.value, a.cost)

\* Inventory.__init__ (src/main.py:287-289)
NewInventory == [t \in all_tickers |-> NewAsset]

\* Buy(ticker, price, qty) and Sell(ticker, price, qty, profit, cost)
Buy(ticker, price, qty) == [ticker |-> ticker, price |-> price, qty |-> qty]
Sell(ticker, price, qty, prof, cost) ==
    [ticker |-> ticker, price |-> price, qty |-> qty, profit |-> prof, cost |-> cost]

Key(date, ticker) == <<date[1], date[2], date[3], ticker>>

\* A variant of add_sell that adds the profit and the cost of a further sale
\* to the event stored for the key.
add_sell_Accumulate(hist, date, sell) ==
    LET k == Key(date, sell.ticker)
    IN  IF k \in DOMAIN hist
        THEN [hist EXCEPT ![k].profit = RAdd(hist[k].profit, sell.profit),
                          ![k].cost = RAdd(hist[k].cost, sell.cost)]
        ELSE SetDefault(hist, k, sell)

\* A variant of add_sell that overwrites the event stored for the key.
add_sell_Overwrite(hist, date, sell) ==
    (Key(date, sell.ticker) :> sell) @@ hist

\* TradeHistory.add_buy / add_sell (src/main.py:147, 159): a setdefault chain.
add_buy(hist, date, buy) == SetDefault(hist, Key(date, buy.ticker), buy)
add_sell(hist, date, sell) == SetDefault(hist, Key(date, sell.ticker), sell)

\* get_daily_price (src/main.py:564)
get_daily_price(prices, date, ticker) == prices[date][ticker]

---------------------------------------------------------------------------
(* process_trade (src/main.py:584-597) on the asset of the traded ticker.  *)

\* The Sell event recorded at 593-594, from the position before the sale.
SellOf(a, ticker, eod_price, qty) ==
    LET temp_avg_price == avg_price(a)
    IN  Sell(ticker, eod_price, qty,
             RMul(RSub(eod_price, temp_avg_price), RInt(qty)),
             RMul(temp_avg_price, RInt(qty)))

\* A variant of BuyAsset that leaves the cash of the position as it is.
BuyAsset_KeepCash(a, eod_price, qty) ==
    [a EXCEPT !.qty = a.qty + qty,
              !.cost = RAdd(a.cost, RMul(eod_price, RInt(qty)))]

\* A variant of BuyAsset that adds the price, not price * qty, to the cost.
BuyAsset_UnitCost(a, eod_price, qty) ==
    [a EXCEPT !.qty = a.qty + qty,
              !.cost = RAdd(a.cost, eod_price),
              !.cash = RSub(a.cash, RMul(eod_price, RInt(qty)))]

\* 588-590
BuyAsset(a, eod_price, qty) ==
    [a EXCEPT !.qty = a.qty + qty,
              !.cost = RAdd(a.cost, RMul(eod_price, RInt(qty))),
              !.cash = RSub(a.cash, RMul(eod_price, RInt(qty)))]

\* A variant of SellAsset that takes the average price after the quantity
\* has been decreased.
SellAsset_AvgAfter(a, eod_price, qty) ==
    LET sold == [a EXCEPT !.qty = a.qty - qty]
        temp_avg_price == avg_price(sold)
    IN  [sold EXCEPT !.cash = RAdd(a.cash, RMul(eod_price, RInt(qty))),
                     !.cost = RSub(a.cost, RMul(temp_avg_price, RInt(qty)))]

\* A variant of SellAsset that drops a sale of more than is held.
SellAsset_NoShort(a, eod_price, qty) ==
    IF qty > a.qty THEN a
    ELSE [a EXCEPT !.cash = RAdd(a.cash, RMul(eod_price, RInt(qty))),
                   !.cost = RSub(a.cost, RMul(avg_price(a), RInt(qty))),
                   !.qty = a.qty - qty]

\* A variant of SellAsset that removes the proceeds of the sale from the cost.
SellAsset_CostAtPrice(a, eod_price, qty) ==
    [a EXCEPT !.cash = RAdd(a.cash, RMul(eod_price, RInt(qty))),
              !.cost = RSub(a.cost, RMul(eod_price, RInt(qty))),
              !.qty = a.qty - qty]

\* 592, 595-597
SellAsset(a, eod_price, qty) ==
    LET temp_avg_price == avg_price(a)
    IN  [a EXCEPT !.cash = RAdd(a.cash, RMul(eod_price, RInt(qty))),
                  !.cost = RSub(a.cost, RMul(temp_avg_price, RInt(qty))),
                  !.qty = a.qty - qty]

TradeAsset(a, eod_price, qty, order_type) ==
    IF order_type = "BUY" THEN BuyAsset(a, eod_price, qty)
    ELSE SellAsset(a, eod_price, qty)

\* A variant of TradeInventory whose sale takes the average price of the
\* whole portfolio (the cost of all tickers over the quantity of all).
TradeInventory_PortfolioAvg(inv, prices, date, ticker, qty, order_type) ==
    LET eod_price == get_daily_price(prices, date, ticker)
        a == inv[ticker]
        other == CHOOSE u \in all_tickers : u # ticker
        all_qty == a.qty + inv[other].qty
        all_cost == RAdd(a.cost, inv[other].cost)
        temp_avg_price == IF all_qty # 0 THEN RDiv(all_cost, RInt(all_qty)) ELSE RZero
    IN  [inv EXCEPT ![ticker] =
            IF order_type = "BUY" THEN BuyAsset(a, eod_price, qty)
            ELSE [a EXCEPT !.cash = RAdd(a.cash, RMul(eod_price, RInt(qty))),
                           !.cost = RSub(a.cost, RMul(temp_avg_price, RInt(qty))),
                           !.qty = a.qty - qty]]

\* The inventory after process_trade.
TradeInventory(inv, prices, date, ticker, qty, order_type) ==
    [inv EXCEPT ![ticker] =
        TradeAsset(inv[ticker], get_daily_price(prices, date, ticker), qty, order_type)]

\* calc_unrealized_profits (src/main.py:612-615)
calc_unrealized_profits(inv, prices, date) ==
    [t \in all_tickers |->
        [inv[t] EXCEPT !.value = RMul(get_daily_price(prices, date, t), RInt(inv[t].qty))]]

---------------------------------------------------------------------------
(* The object store and the snapshot store.                                *)

\* The reference of the live inventory, inventory_curr.
CurrRef == NoDate

\* A variant of SnapshotRef that stores the live inventory itself, no copy.
SnapshotRef_Live(date) == CurrRef

\* A variant of take_snapshot_heap that copies over the snapshot of a date
\* that has one.
take_snapshot_heap_Overwrite(h, snap, date) ==
    [r \in (DOMAIN h) \cup {date} |-> IF r = date THEN h[CurrRef] ELSE h[r]]

\* InventorySnapshot.take_snapshot (src/main.py:394): the reference stored
\* for the date, new only when the date has none, and the object store with
\* the deep copy the new reference names.
SnapshotRef(date) == date

take_snapshot_store(snap, date) == SetDefault(snap, date, SnapshotRef(date))

take_snapshot_heap(h, snap, date) ==
    IF date \in DOMAIN snap THEN h
    ELSE [r \in (DOMAIN h) \cup {SnapshotRef(date)} |->
             IF r = SnapshotRef(date) THEN h[CurrRef] ELSE h[r]]

\* InventorySnapshot.get (src/main.py:377-380); None is NoInventory.
NoInventory == [t \in {} |-> NewAsset]
Snapshot(h, snap, date) ==
    IF date \in DOMAIN snap THEN h[snap[date]] ELSE NoInventory

---------------------------------------------------------------------------
(* What the lookups leave in the stores they read.  The code reads plain   *)
(* dictionaries inside try / except KeyError: a lookup that misses inserts *)
(* nothing.                                                                *)

\* TradeHistory.get_sell (src/main.py:193-196): its result, None being NoSell,
\* and the ledger after the call.
NoSell == [ticker |-> ""]
get_sell(hist, date, ticker) ==
    IF Key(date, ticker) \in DOMAIN hist THEN hist[Key(date, ticker)] ELSE NoSell
get_sell_effect(hist, date, ticker) == hist

\* A variant of get_effect that files the live inventory under a date that
\* has no snapshot.
get_effect_Insert(snap, date) == SetDefault(snap, date, CurrRef)

\* InventorySnapshot.get (src/main.py:377-380): the store after the call.
get_effect(snap, date) == snap

\* InventorySnapshot.get_closest_inventory (src/main.py:411-415): the store
\* after the call; the lookup of the date may raise before the store is read.
get_closest_inventory_effect(snap, date) ==
    LET found == get_closest_available_date(date[1], date[2], date[3], DOMAIN snap)
    IN  IF found.err # "none" THEN snap ELSE get_effect(snap, found.date)

\* TradeHistory.sum_profits_costs (src/main.py:212-217): the ledger after the
\* get_sell calls of its two loops.
RECURSIVE GetSellsOfDate_effect(_, _, _)
GetSellsOfDate_effect(hist, date, tickers) ==
    IF tickers = <<>> THEN hist
    ELSE GetSellsOfDate_effect(get_sell_effect(hist, date, Head(tickers)),
                               date, Tail(tickers))

RECURSIVE sum_profits_costs_effect(_, _, _)
sum_profits_costs_effect(hist, dates, tickers) ==
    IF dates = <<>> THEN hist
    ELSE sum_profits_costs_effect(GetSellsOfDate_effect(hist, Head(dates), tickers),
                                  Tail(dates), tickers)

\* get_returns_timespan (src/main.py:724-730): the store after the get of
\* every date of the list and the get_closest_inventory of the dates kept.
RECURSIVE get_returns_timespan_effect(_, _)
get_returns_timespan_effect(snap, dates) ==
    IF dates = <<>> THEN snap
    ELSE LET got == get_effect(snap, Head(dates))
             read == IF Head(dates) \in DOMAIN got
                     THEN get_closest_inventory_effect(got, Head(dates)) ELSE got
         IN  get_returns_timespan_effect(read, Tail(dates))

---------------------------------------------------------------------------
(* The metrics read from the ledger and the snapshot store.                *)

\* EPS (src/main.py:20): the float of the literal 1e-6, which is the
\* quotient 1 / 1000000 as the processor rounds it.
EPS == RDiv(RInt(1), RInt(1000000))

\* The inner loop of TradeHistory.sum_profits_costs (src/main.py:214-217):
\* the sells of one date are added to <<profits, costs>> ticker by ticker.
RECURSIVE AddSellsOfDate(_, _, _, _)
AddSellsOfDate(sums, hist, date, tickers) ==
    IF tickers = <<>> THEN sums
    ELSE AddSellsOfDate(
             IF Key(date, Head(tickers)) \in DOMAIN hist
             THEN <<RAdd(sums[1], hist[Key(date, Head(tickers))].profit),
                    RAdd(sums[2], hist[Key(date, Head(tickers))].cost)>>
             ELSE sums,
             hist, date, Tail(tickers))

\* The sums of the sells of one date, from profits = 0 and costs = 0.
SumSellsOfDate(hist, date, tickers) ==
    AddSellsOfDate(<<RZero, RZero>>, hist, date, tickers)

\* The outer loop (src/main.py:213), date by date.
RECURSIVE AddSells(_, _, _, _)
AddSells(sums, hist, dates, tickers) ==
    IF dates = <<>> THEN sums
    ELSE AddSells(AddSellsOfDate(sums, hist, Head(dates), tickers),
                  hist, Tail(dates), tickers)

\* A variant of sum_profits_costs that returns after the first date.
sum_profits_costs_FirstDate(hist, dates, tickers) ==
    IF dates = <<>> THEN <<RZero, RZero>>
    ELSE SumSellsOfDate(hist, Head(dates), tickers)

\* TradeHistory.sum_profits_costs (src/main.py:210-218) over a list of dates
\* and a list of tickers: <<profits, costs>>.
sum_profits_costs(hist, dates, tickers) ==
    AddSells(<<RZero, RZero>>, hist, dates, tickers)

\* sum(list) of Python: the elements are added to 0 from the first on.
RECURSIVE SumFrom(_, _)
SumFrom(total, xs) ==
    IF xs = <<>> THEN total ELSE SumFrom(RAdd(total, Head(xs)), Tail(xs))

RSum(xs) == SumFrom(RZero, xs)

\* Inventory.profits / Inventory.costs (src/main.py:316, 329) over a list of tickers.
InventoryProfits(inv, tickers) ==
    RSum([i \in 1..Len(tickers) |-> profit(inv[tickers[i]])])

InventoryCosts(inv, tickers) ==
    RSum([i \in 1..Len(tickers) |-> inv[tickers[i]].cost])

\* Inventory.value / Inventory.cash (src/main.py:302, 342) over a list of tickers.
InventoryValue(inv, tickers) ==
    RSum([i \in 1..Len(tickers) |-> inv[tickers[i]].value])

InventoryCash(inv, tickers) ==
    RSum([i \in 1..Len(tickers) |-> inv[tickers[i]].cash])

\* A variant of Percent that guards the division against a zero cost only.
Percent_NonZero(prof, cost) ==
    IF cost # RZero THEN RMul(RDiv(prof, cost), RInt(100)) ELSE RZero

\* profit / cost * 100 if cost > EPS else 0 (src/main.py:688, 692, 696)
Percent(prof, cost) ==
    IF RLess(EPS, cost) THEN RMul(RDiv(prof, cost), RInt(100)) ELSE RZero

\* The nine values get_profits_cost returns (src/main.py:698-700), from the
\* realized, the unrealized and the total profit and cost.
ProfitsCostResult(realized_profits, realized_cost, unrealized_profits, unrealized_cost, total_profits, total_cost) ==
    [err |-> "none",
     realized_profits |-> realized_profits,
     realized_cost |-> realized_cost,
     realized_profits_percent |-> Percent(realized_profits, realized_cost),
     unrealized_profits |-> unrealized_profits,
     unrealized_cost |-> unrealized_cost,
     unrealized_profits_percent |-> Percent(unrealized_profits, unrealized_cost),
     total_profits |-> total_profits,
     total_cost |-> total_cost,
     total_profits_percent |-> Percent(total_profits, total_cost)]

\* The body of get_profits_cost after its two reads, the sums of the ledger
\* and the closest-date lookup, whose error propagates (src/main.py:690-695);
\* the totals are the realized plus the unrealized figures.
ProfitsCostAt(realized, found, h, snap, tickers) ==
    IF found.err # "none" THEN [err |-> found.err]
    ELSE ProfitsCostResult(
             realized[1], realized[2],
             InventoryProfits(Snapshot(h, snap, found.date), tickers),
             InventoryCosts(Snapshot(h, snap, found.date), tickers),
             RAdd(realized[1], InventoryProfits(Snapshot(h, snap, found.date), tickers)),
             RAdd(realized[2], InventoryCosts(Snapshot(h, snap, found.date), tickers)))

\* get_profits_cost (src/main.py:687-700) on a ledger, an object store and
\* a snapshot store.
get_profits_cost(hist, h, snap, dates, tickers) ==
    ProfitsCostAt(sum_profits_costs(hist, dates, tickers),
                  get_closest_available_date(dates[Len(dates)][1], dates[Len(dates)][2],
                                             dates[Len(dates)][3], DOMAIN snap),
                  h, snap, tickers)

\* get_stock_price_yfinance (src/main.py:656-658): the rows of the benchmark
\* series from the start date to the end date, both included.
get_stock_price_yfinance(market, start, end) ==
    [d \in {x \in DOMAIN market : DateLe(start, x) /\ DateLe(x, end)} |-> market[d]]

\* A variant of ReturnsWalk whose return of a pair takes the sells of the
\* pair's second date only.
RECURSIVE ReturnsWalk_SecondDateOnly(_, _, _, _, _, _, _)
ReturnsWalk_SecondDateOnly(dates, prev_date, hist, h, snap, market_prices, tickers) ==
    IF dates = <<>> THEN [ret |-> <<>>, ret_market |-> <<>>]
    ELSE LET date == Head(dates)
             rest == Tail(dates)
             skip == ReturnsWalk_SecondDateOnly(rest, prev_date, hist, h, snap,
                                                market_prices, tickers)
             keep == ReturnsWalk_SecondDateOnly(rest, date, hist, h, snap,
                                                market_prices, tickers)
         IN  IF date \notin DOMAIN snap THEN skip
             ELSE IF date \notin DOMAIN market_prices THEN skip
             ELSE IF prev_date = NoDate THEN keep
             ELSE LET r == get_profits_cost(hist, h, snap, <<date>>, tickers)
                  IN  IF r.err # "none" THEN skip
                      ELSE [ret |-> <<r.total_profits_percent>> \o keep.ret,
                            ret_market |->
                                <<RSub(market_prices[date], market_prices[prev_date])>>
                                \o keep.ret_market]

\* A variant of ReturnsWalk that makes a date without a benchmark price the
\* previous date of the next pair.
RECURSIVE ReturnsWalk_KeepUnpriced(_, _, _, _, _, _, _)
ReturnsWalk_KeepUnpriced(dates, prev_date, hist, h, snap, market_prices, tickers) ==
    IF dates = <<>> THEN [ret |-> <<>>, ret_market |-> <<>>]
    ELSE LET date == Head(dates)
             rest == Tail(dates)
         IN  IF date \notin DOMAIN snap
             THEN ReturnsWalk_KeepUnpriced(rest, prev_date, hist, h, snap,
                                           market_prices, tickers)
             ELSE IF date \notin DOMAIN market_prices
             THEN ReturnsWalk_KeepUnpriced(rest, date, hist, h, snap,
                                           market_prices, tickers)
             ELSE IF prev_date = NoDate \/ prev_date \notin DOMAIN market_prices
             THEN ReturnsWalk_KeepUnpriced(rest, date, hist, h, snap,
                                           market_prices, tickers)
             ELSE LET r == get_profits_cost(hist, h, snap, <<prev_date, date>>, tickers)
                      more == ReturnsWalk_KeepUnpriced(rest, date, hist, h, snap,
                                                       market_prices, tickers)
                  IN  [ret |-> <<r.total_profits_percent>> \o more.ret,
                       ret_market |->
                           <<RSub(market_prices[date], market_prices[prev_date])>>
                           \o more.ret_market]

\* The body of the try block for a pair of dates (src/main.py:729-734): r is
\* what get_profits_cost gave for the pair; an exception skips the date.
ReturnsOfPair(r, market_return, skip, keep) ==
    IF r.err # "none" THEN skip
    ELSE [ret |-> <<r.total_profits_percent>> \o keep.ret,
          ret_market |-> <<market_return>> \o keep.ret_market]

\* The loop of get_returns_timespan (src/main.py:724-736) from a date of the
\* list on, prev_date being None (NoDate) or the date kept last.  An
\* exception raised inside the try block skips the date.
RECURSIVE ReturnsWalk(_, _, _, _, _, _, _)
ReturnsWalk(dates, prev_date, hist, h, snap, market_prices, tickers) ==
    IF dates = <<>> THEN [ret |-> <<>>, ret_market |-> <<>>]
    ELSE LET date == Head(dates)
             rest == Tail(dates)
             skip == ReturnsWalk(rest, prev_date, hist, h, snap, market_prices, tickers)
             keep == ReturnsWalk(rest, date, hist, h, snap, market_prices, tickers)
         IN  IF date \notin DOMAIN snap THEN skip
             ELSE IF date \notin DOMAIN market_prices THEN skip
             ELSE IF prev_date = NoDate THEN keep
             ELSE ReturnsOfPair(get_profits_cost(hist, h, snap, <<prev_date, date>>, tickers),
                                RSub(market_prices[date], market_prices[prev_date]),
                                skip, keep)

\* get_returns_timespan (src/main.py:720-737); dates[0] of an empty list
\* raises IndexError.
get_returns_timespan(hist, h, snap, market, dates, tickers) ==
    IF dates = <<>> THEN [err |-> "IndexError"]
    ELSE LET market_prices == get_stock_price_yfinance(market, dates[1], dates[Len(dates)])
             walk == ReturnsWalk(dates, NoDate, hist, h, snap, market_prices, tickers)
         IN  [err |-> "none", ret |-> walk.ret, ret_market |-> walk.ret_market]

\* A float that is not a number: the result of numpy's 0 / 0.
NaN == [s |-> 0, m |-> <<>>, e |-> 1]

\* np.add.reduce of a float array (the sum np.mean and np.var take): fewer
\* than 8 elements are added from the first on; up to 128 are added in 8
\* lanes, element i to lane i mod 8, the lanes added in pairs and the
\* elements after the last full block of 8 added to that from the first on;
\* more than 128 are split at a multiple of 8 at or below the middle, and
\* the sums of the two parts added.
RECURSIVE PairwiseSum(_)
PairwiseSum(xs) ==
    IF Len(xs) < 8 THEN RSum(xs)
    ELSE IF Len(xs) <= 128
    THEN LET blocks == Len(xs) \div 8
             r == [j \in 1..8 |->
                      SumFrom(xs[j], [k \in 1..(blocks - 1) |-> xs[j + 8 * k]])]
         IN  SumFrom(RAdd(RAdd(RAdd(r[1], r[2]), RAdd(r[3], r[4])),
                          RAdd(RAdd(r[5], r[6]), RAdd(r[7], r[8]))),
                     SubSeq(xs, 8 * blocks + 1, Len(xs)))
    ELSE LET half == (Len(xs) \div 2) - ((Len(xs) \div 2) % 8)
         IN  RAdd(PairwiseSum(SubSeq(xs, 1, half)),
                  PairwiseSum(SubSeq(xs, half + 1, Len(xs))))

\* np.mean: the sum of the array divided by the length.
Mean(xs) == RDiv(PairwiseSum(xs), RInt(Len(xs)))

\* arr - arrmean
Centered(xs, mean) == [i \in 1..Len(xs) |-> RSub(xs[i], mean)]

\* The dot product np.cov takes of the deviations of two series from their
\* means, product by product from the first on.
Deviations(xs, ys) ==
    LET cx == Centered(xs, Mean(xs))
        cy == Centered(ys, Mean(ys))
    IN  RSum([i \in 1..Len(xs) |-> RMul(cx[i], cy[i])])

\* np.cov(x, y)[0, 1] (src/main.py:778): the default ddof of np.cov is 1, the
\* sum of products is multiplied by 1 / (len - 1); 0 * (1 / 0) is nan.
np_cov(xs, ys) ==
    IF Len(xs) < 2 THEN NaN
    ELSE RMul(Deviations(xs, ys), RDiv(RInt(1), RInt(Len(xs) - 1)))

\* np.var(x) (src/main.py:779): the default ddof of np.var is 0, the sum of
\* the array of the squared deviations is divided by len; the variance of no
\* element is nan.
np_var(xs) ==
    IF xs = <<>> THEN NaN
    ELSE LET x == Centered(xs, Mean(xs))
         IN  RDiv(PairwiseSum([i \in 1..Len(xs) |-> RMul(x[i], x[i])]),
                  RInt(Len(xs)))

\* covariance / variance (src/main.py:780); nan / x, x / nan and 0 / 0 are
\* nan, and the covariance of a series with itself is 0 when its variance is.
Beta(covariance, variance) ==
    IF covariance = NaN \/ variance = NaN \/ variance = RZero THEN NaN
    ELSE RDiv(covariance, variance)

\* get_beta (src/main.py:778-781).
get_beta(ret_ticker, ret_market) ==
    Beta(np_cov(ret_ticker, ret_market), np_var(ret_market))

\* RISK_FREE_RATE (src/main.py:31), 0.02.
RISK_FREE_RATE == RDiv(RInt(2), RInt(100))

\* The first and the last row of a benchmark series (iloc[0], iloc[-1]).
FirstDate(S) == CHOOSE x \in S : \A z \in S : DateLe(x, z)
LastDate(S) == CHOOSE x \in S : \A z \in S : DateLe(z, x)

\* alpha = portfolio return - risk free rate - beta * (market return - risk
\* free rate) (src/main.py:763-764); arithmetic on nan is nan.
AlphaValue(beta, total_profits_percent, total_return_of_market) ==
    IF beta = NaN THEN NaN
    ELSE RSub(RSub(total_profits_percent, RISK_FREE_RATE),
              RMul(beta, RSub(total_return_of_market, RISK_FREE_RATE)))

\* The benchmark's return over the date range, in percent (src/main.py:760-761).
TotalReturnOfMarket(market_prices) ==
    RMul(RDiv(RSub(market_prices[LastDate(DOMAIN market_prices)],
                   market_prices[FirstDate(DOMAIN market_prices)]),
              market_prices[FirstDate(DOMAIN market_prices)]),
         RInt(100))

\* What the model keeps of a get_alpha call: ret_market and beta beside the
\* alpha returned (src/main.py:764).
AlphaResult(ret_market, beta, returns, total_return_of_market) ==
    [err |-> "none",
     ret_market |-> ret_market,
     beta |-> beta,
     alpha |-> AlphaValue(beta, returns, total_return_of_market)]

\* The body of get_alpha after its three reads (src/main.py:759-764), in the
\* order the code makes them: the returns, the benchmark series, beta, the
\* profits.  The result keeps ret_market and beta beside the alpha returned.
AlphaOf(returns_timespan, market_prices, profits_cost) ==
    IF returns_timespan.err # "none" THEN [err |-> returns_timespan.err]
    ELSE IF DOMAIN market_prices = {} THEN [err |-> "IndexError"]
    ELSE IF profits_cost.err # "none" THEN [err |-> profits_cost.err]
    ELSE AlphaResult(returns_timespan.ret_market,
                     get_beta(returns_timespan.ret_market, returns_timespan.ret_market),
                     profits_cost.total_profits_percent,
                     TotalReturnOfMarket(market_prices))

\* get_alpha (src/main.py:739-764).
get_alpha(hist, h, snap, market, dates, tickers, tickers_interested) ==
    AlphaOf(get_returns_timespan(hist, h, snap, market, dates, tickers_interested),
            get_stock_price_yfinance(market, dates[1], dates[Len(dates)]),
            get_profits_cost(hist, h, snap, dates, tickers))

---------------------------------------------------------------------------
(* The state of the program, and the operations on it.                     *)

inventory_curr == heap[CurrRef]

\* The snapshot the store holds for a date.
StoredSnapshot(date) == Snapshot(heap, inventory_snapshot, date)

\* The row the replay is at (the loop variable of 1017).
CurrentRow == IF rows = <<>> THEN NoRow ELSE rows[Len(rows)]

NoCall == [op |-> "none"]

\* process_trade(date, ticker, qty, order_type) (src/main.py:566-597)
process_trade(date, ticker, qty, order_type) ==
    LET eod_price == get_daily_price(price_daily, date, ticker)
        curr_ticker == inventory_curr[ticker]
    IN  /\ IF order_type = "BUY"
           THEN /\ buy_history' = add_buy(buy_history, date, Buy(ticker, eod_price, qty))
                /\ UNCHANGED sell_history
           ELSE /\ sell_history' =
                       add_sell(sell_history, date, SellOf(curr_ticker, ticker, eod_price, qty))
                /\ UNCHANGED buy_history
        /\ heap' = [heap EXCEPT ![CurrRef] =
                        TradeInventory(inventory_curr, price_daily, date, ticker, qty, order_type)]
        /\ applied' = Append(applied,
                             [date |-> date, ticker |-> ticker, qty |-> qty,
                              order_type |-> order_type, price |-> eod_price,
                              before |-> curr_ticker])
        /\ UNCHANGED inventory_snapshot

\* A variant of daily_update that commits the snapshot before it marks the
\* inventory to market.
daily_update_CommitFirst(date) ==
    LET committed == take_snapshot_heap(heap, inventory_snapshot, date)
    IN  /\ heap' = [committed EXCEPT ![CurrRef] =
                        calc_unrealized_profits(inventory_curr, price_daily, date)]
        /\ inventory_snapshot' = take_snapshot_store(inventory_snapshot, date)
        /\ UNCHANGED <<buy_history, sell_history, applied>>

\* daily_update(date) (src/main.py:617-633): mark to market, then commit.
daily_update(date) ==
    LET marked == [heap EXCEPT ![CurrRef] =
                       calc_unrealized_profits(inventory_curr, price_daily, date)]
    IN  /\ heap' = take_snapshot_heap(marked, inventory_snapshot, date)
        /\ inventory_snapshot' = take_snapshot_store(inventory_snapshot, date)
        /\ UNCHANGED <<buy_history, sell_history, applied>>

---------------------------------------------------------------------------
(* The replay of __main__ (src/main.py:1012-1023).                         *)

PriceTable(file) == [d \in SeqRange(file) |-> [t \in all_tickers |-> ClosePrice(d, t)]]

InitStores ==
    /\ heap = (CurrRef :> NewInventory)
    /\ inventory_snapshot = EmptyMap
    /\ buy_history = EmptyMap
    /\ sell_history = EmptyMap
    /\ applied = <<>>

Init ==
    /\ \E file \in SubSeqs(Calendar) :
          /\ update_dates = file
          /\ price_daily = PriceTable(file)
    /\ update_date = NoDate
    /\ rows = <<>>
    /\ pc = "start"
    /\ loop_i = 0
    /\ InitStores
    /\ q = NoCall

\* A variant of Start that reads the first date of the list and leaves it in
\* the list.
Start_KeepHead ==
    /\ pc = "start"
    /\ IF update_dates = <<>>
       THEN /\ pc' = "error"
            /\ UNCHANGED <<update_date, update_dates>>
       ELSE /\ pc' = "read"
            /\ update_date' = Head(update_dates)
            /\ UNCHANGED update_dates
    /\ UNCHANGED <<price_daily, rows, loop_i, heap, inventory_snapshot,
                   buy_history, sell_history, applied, q>>

\* 1016: update_date = update_dates.pop(0); IndexError on an empty list.
Start ==
    /\ pc = "start"
    /\ IF update_dates = <<>>
       THEN /\ pc' = "error"
            /\ UNCHANGED <<update_date, update_dates>>
       ELSE /\ pc' = "read"
            /\ update_date' = Head(update_dates)
            /\ update_dates' = Tail(update_dates)
    /\ UNCHANGED <<price_daily, rows, loop_i, heap, inventory_snapshot,
                   buy_history, sell_history, applied, q>>

\* 1017: the reader yields the next row of the file.
ReadRow ==
    /\ pc = "read"
    /\ Len(rows) < MaxTx
    /\ \E r \in Rows : rows' = Append(rows, r)
    /\ pc' = "while"
    /\ UNCHANGED <<price_daily, update_dates, update_date, loop_i, heap,
                   inventory_snapshot, buy_history, sell_history, applied, q>>

\* A variant of Advance that, when the date list is exhausted, gives the row
\* up and reads the next one.
Advance_SkipRow ==
    /\ pc = "while"
    /\ update_date # CurrentRow.date
    /\ daily_update(update_date)
    /\ IF update_dates = <<>>
       THEN /\ pc' = "read"
            /\ UNCHANGED <<update_date, update_dates>>
       ELSE /\ pc' = "while"
            /\ update_date' = Head(update_dates)
            /\ update_dates' = Tail(update_dates)
    /\ UNCHANGED <<price_daily, rows, loop_i, q>>

\* 1018-1020: one turn of the while loop; pop(0) raises on an empty list.
Advance ==
    /\ pc = "while"
    /\ update_date # CurrentRow.date
    /\ daily_update(update_date)
    /\ IF update_dates = <<>>
       THEN /\ pc' = "error"
            /\ UNCHANGED <<update_date, update_dates>>
       ELSE /\ pc' = "while"
            /\ update_date' = Head(update_dates)
            /\ update_dates' = Tail(update_dates)
    /\ UNCHANGED <<price_daily, rows, loop_i, q>>

\* 1021: the row's trade, at the cursor's date.
Trade ==
    /\ pc = "while"
    /\ update_date = CurrentRow.date
    /\ process_trade(update_date, CurrentRow.ticker, CurrentRow.qty, CurrentRow.order_type)
    /\ pc' = "read"
    /\ UNCHANGED <<price_daily, update_dates, update_date, rows, loop_i, q>>

\* 1017 -> 1022: the reader is exhausted, the trailing loop starts.
EndOfRows ==
    /\ pc = "read"
    /\ pc' = "tail"
    /\ loop_i' = 1
    /\ UNCHANGED <<price_daily, update_dates, update_date, rows, heap,
                   inventory_snapshot, buy_history, sell_history, applied, q>>

\* 1022-1023: one turn of the trailing loop over the dates left in the list.
TailUpdate ==
    /\ pc = "tail"
    /\ loop_i <= Len(update_dates)
    /\ daily_update(update_dates[loop_i])
    /\ loop_i' = loop_i + 1
    /\ UNCHANGED <<price_daily, update_dates, update_date, rows, pc, q>>

\* The trailing loop ends: the replay is complete.
Finish ==
    /\ pc = "tail"
    /\ loop_i > Len(update_dates)
    /\ pc' = "done"
    /\ UNCHANGED <<price_daily, update_dates, update_date, rows, loop_i, heap,
                   inventory_snapshot, buy_history, sell_history, applied, q>>

\* The date lists and ticker lists the metrics are asked for after the replay.
QueryDates ==
    { <<Calendar[1], Calendar[2]>>, <<Calendar[2], <<2020, 1, 4>>>>,
      <<Calendar[3], <<2021, 2, 1>>>> }
QueryTickers == { <<"AAPL", "MSFT">> }

\* After the replay: a call of get_profits_cost (as print_profit_table makes).
\* A call changes none of the stores, so the model follows the first call only.
Query ==
    /\ pc = "done"
    /\ q = NoCall
    /\ \E dates \in QueryDates, tickers \in QueryTickers :
          /\ q' = [op |-> "get_profits_cost", dates |-> dates, tickers |-> tickers,
                   result |-> get_profits_cost(sell_history, heap, inventory_snapshot,
                                               dates, tickers)]
          /\ sell_history' = sum_profits_costs_effect(sell_history, dates, tickers)
          /\ inventory_snapshot' =
                 get_closest_inventory_effect(inventory_snapshot, dates[Len(dates)])
    /\ UNCHANGED <<price_daily, update_dates, update_date, rows, pc, loop_i, heap,
                   buy_history, applied>>

\* The pairs of disjoint date lists and the ticker lists the ledger is summed
\* over after the replay; 2020-01-04 is a date with no price and no trade.
SumDates ==
    { << <<Calendar[2]>>, <<Calendar[1], Calendar[3]>> >>,
      << <<Calendar[2], <<2020, 1, 4>>>>, <<Calendar[1]>> >> }
SumTickers == { <<"AAPL", "MSFT">>, <<"MSFT">> }

\* After the replay: trades.sum_profits_costs (src/main.py:198-218) called on
\* a date list, on another, and on the two joined.
QuerySums ==
    /\ pc = "done"
    /\ q = NoCall
    /\ \E ab \in SumDates, tickers \in SumTickers :
          /\ q' = [op |-> "sum_profits_costs", a |-> ab[1], b |-> ab[2],
                   tickers |-> tickers,
                   result |-> [a |-> sum_profits_costs(sell_history, ab[1], tickers),
                               b |-> sum_profits_costs(sell_history, ab[2], tickers),
                               ab |-> sum_profits_costs(sell_history, ab[1] \o ab[2],
                                                        tickers)]]
          /\ sell_history' =
                 sum_profits_costs_effect(sell_history, ab[1] \o ab[2] \o ab[1] \o ab[2],
                                          tickers)
    /\ UNCHANGED <<price_daily, update_dates, update_date, rows, pc, loop_i, heap,
                   inventory_snapshot, buy_history, applied>>

\* The list the name all_tickers is bound to when the def statements run
\* (src/main.py:34), which the default arguments "tickers = all_tickers" keep
\* (198, 291, 304, 318, 331, 662), and the list __main__ binds the name to
\* after reading the labels of the price table (976).
DefaultTickers == <<>>
LoadedTickers == <<"AAPL", "MSFT">>

\* The four aggregations of the live inventory, the ledger sum and
\* get_profits_cost over one list of tickers.
Aggregations(hist, h, snap, dates, tickers) ==
    [value |-> InventoryValue(h[CurrRef], tickers),
     profits |-> InventoryProfits(h[CurrRef], tickers),
     costs |-> InventoryCosts(h[CurrRef], tickers),
     cash |-> InventoryCash(h[CurrRef], tickers),
     sums |-> sum_profits_costs(hist, dates, tickers),
     profits_cost |-> get_profits_cost(hist, h, snap, dates, tickers)]

\* After the replay: the aggregations called without a tickers argument,
\* beside the same calls with the list read from the price table.
QueryDefaults ==
    /\ pc = "done"
    /\ q = NoCall
    /\ \E dates \in { <<Calendar[1], Calendar[2]>> } :
          /\ q' = [op |-> "defaults", dates |-> dates,
                   result |-> Aggregations(sell_history, heap, inventory_snapshot,
                                           dates, DefaultTickers),
                   loaded |-> Aggregations(sell_history, heap, inventory_snapshot,
                                           dates, LoadedTickers)]
          /\ sell_history' = sum_profits_costs_effect(sell_history, dates, LoadedTickers)
          /\ inventory_snapshot' =
                 get_closest_inventory_effect(inventory_snapshot, dates[Len(dates)])
    /\ UNCHANGED <<price_daily, update_dates, update_date, rows, pc, loop_i, heap,
                   buy_history, applied>>

\* The benchmark series (MARKET_DATA) of the model: one with a close for
\* every price date and for 2020-01-04, one without a close for 2020-01-03.
MarketFull ==
    (<<2020, 1, 2>> :> RInt(3000)) @@ (<<2020, 1, 3>> :> RInt(3030)) @@
    (<<2020, 1, 4>> :> RInt(3040)) @@ (<<2020, 2, 3>> :> RInt(2990)) @@
    (<<2020, 2, 4>> :> RInt(3010))
MarketGap ==
    (<<2020, 1, 2>> :> RInt(3000)) @@ (<<2020, 2, 3>> :> RInt(2990)) @@
    (<<2020, 2, 4>> :> RInt(3010))

\* The date lists the returns are asked for, each with a benchmark series.
ReturnsDates ==
    <<Calendar[1], Calendar[2], <<2020, 1, 4>>, Calendar[3], <<2020, 2, 4>>>>
ReturnsInputs ==
    { <<ReturnsDates, MarketFull>>, <<ReturnsDates, MarketGap>>, <<<<>>, MarketFull>> }

\* After the replay: a call of get_returns_timespan (as add_row makes).
QueryReturns ==
    /\ pc = "done"
    /\ q = NoCall
    /\ \E in \in ReturnsInputs, tickers \in QueryTickers :
          /\ q' = [op |-> "get_returns_timespan", dates |-> in[1], market |-> in[2],
                   tickers |-> tickers,
                   result |-> get_returns_timespan(sell_history, heap, inventory_snapshot,
                                                   in[2], in[1], tickers)]
          /\ sell_history' = sum_profits_costs_effect(sell_history, in[1], tickers)
          /\ inventory_snapshot' = get_returns_timespan_effect(inventory_snapshot, in[1])
    /\ UNCHANGED <<price_daily, update_dates, update_date, rows, pc, loop_i, heap,
                   buy_history, applied>>

\* After the replay: a call of get_alpha (as row_values makes).
QueryAlpha ==
    /\ pc = "done"
    /\ q = NoCall
    /\ \E in \in ReturnsInputs, tickers \in QueryTickers :
          /\ in[1] # <<>>
          /\ q' = [op |-> "get_alpha", dates |-> in[1], market |-> in[2],
                   tickers |-> tickers,
                   result |-> get_alpha(sell_history, heap, inventory_snapshot,
                                        in[2], in[1], tickers, tickers)]
          /\ sell_history' = sum_profits_costs_effect(sell_history, in[1], tickers)
          /\ inventory_snapshot' =
                 get_closest_inventory_effect(
                     get_returns_timespan_effect(inventory_snapshot, in[1]),
                     in[1][Len(in[1])])
    /\ UNCHANGED <<price_daily, update_dates, update_date, rows, pc, loop_i, heap,
                   buy_history, applied>>

\* The tickers the ledger is asked for after the replay: one of the price
\* file and one that is not.
LookupTickers == {"AAPL", "GOOG"}

\* After the replay: a call of trades.get_sell.
QueryGetSell ==
    /\ pc = "done"
    /\ q = NoCall
    /\ \E date \in {Calendar[2], <<2020, 1, 4>>}, ticker \in LookupTickers :
          /\ q' = [op |-> "get_sell", date |-> date, ticker |-> ticker,
                   result |-> get_sell(sell_history, date, ticker)]
          /\ sell_history' = get_sell_effect(sell_history, date, ticker)
    /\ UNCHANGED <<price_daily, update_dates, update_date, rows, pc, loop_i, heap,
                   inventory_snapshot, buy_history, applied>>

\* After the replay: a call of inventory_snapshot.get.
QueryGet ==
    /\ pc = "done"
    /\ q = NoCall
    /\ \E date \in {Calendar[2], <<2020, 1, 4>>} :
          /\ q' = [op |-> "get", date |-> date,
                   result |-> Snapshot(heap, inventory_snapshot, date)]
          /\ inventory_snapshot' = get_effect(inventory_snapshot, date)
    /\ UNCHANGED <<price_daily, update_dates, update_date, rows, pc, loop_i, heap,
                   buy_history, sell_history, applied>>

\* After the replay: a call of inventory_snapshot.get_closest_inventory.
QueryClosestInventory ==
    /\ pc = "done"
    /\ q = NoCall
    /\ \E date \in {<<2020, 1, 4>>, <<2019, 12, 31>>} :
          LET found == get_closest_available_date(date[1], date[2], date[3],
                                                  DOMAIN inventory_snapshot)
          IN  /\ q' = [op |-> "get_closest_inventory", date |-> date,
                       result |-> IF found.err # "none" THEN [err |-> found.err]
                                  ELSE [err |-> "none",
                                        inventory |-> Snapshot(heap, inventory_snapshot,
                                                               found.date)]]
              /\ inventory_snapshot' = get_closest_inventory_effect(inventory_snapshot, date)
    /\ UNCHANGED <<price_daily, update_dates, update_date, rows, pc, loop_i, heap,
                   buy_history, sell_history, applied>>

\* After the replay: a call of get_closest_available_date on the snapshot
\* store; it reads the keys of the dictionaries.
QueryClosestDate ==
    /\ pc = "done"
    /\ q = NoCall
    /\ \E date \in {<<2019, 12, 31>>, <<2021, 2, 1>>} :
          q' = [op |-> "get_closest_available_date", index |-> DOMAIN inventory_snapshot,
                target |-> date,
                result |-> get_closest_available_date(date[1], date[2], date[3],
                                                      DOMAIN inventory_snapshot)]
    /\ UNCHANGED <<price_daily, update_dates, update_date, rows, pc, loop_i, heap,
                   inventory_snapshot, buy_history, sell_history, applied>>

Next ==
    \/ Start
    \/ ReadRow
    \/ Advance
    \/ Trade
    \/ EndOfRows
    \/ TailUpdate
    \/ Finish
    \/ Query
    \/ QuerySums

Spec == Init /\ [][Next]_vars

---------------------------------------------------------------------------
(* The replay of a price file of four dates, and the metric and lookup     *)
(* calls made once it has completed.                                       *)

LongFile == Calendar \o << <<2020, 2, 4>> >>

InitMetrics ==
    /\ update_dates = LongFile
    /\ price_daily = PriceTable(LongFile)
    /\ update_date = NoDate
    /\ rows = <<>>
    /\ pc = "start"
    /\ loop_i = 0
    /\ InitStores
    /\ q = NoCall

NextMetrics ==
    \/ Start
    \/ ReadRow
    \/ Advance
    \/ Trade
    \/ EndOfRows
    \/ TailUpdate
    \/ Finish
    \/ Query
    \/ QuerySums
    \/ QueryReturns
    \/ QueryAlpha
    \/ QueryGetSell
    \/ QueryGet
    \/ QueryClosestInventory
    \/ QueryClosestDate

SpecMetrics == InitMetrics /\ [][NextMetrics]_vars

---------------------------------------------------------------------------
(* The replay followed by the calls that read the ledger and the live      *)
(* inventory: the ledger summed over date lists, and the aggregations      *)
(* called without a tickers argument.                                      *)

NextLedger ==
    \/ Start
    \/ ReadRow
    \/ Advance
    \/ Trade
    \/ EndOfRows
    \/ TailUpdate
    \/ Finish
    \/ QuerySums
    \/ QueryDefaults

SpecLedger == Init /\ [][NextLedger]_vars

---------------------------------------------------------------------------
(* The replay as a function of its two files: the stores and the outcome   *)
(* the code of src/main.py:1016-1023 ends with on a price file and a list  *)
(* of transaction rows.  It is the replay above, step for step, on a       *)
(* record of the stores in place of the variables.                         *)

StoresAtStart ==
    [heap |-> (CurrRef :> NewInventory), snapshot |-> EmptyMap,
     buy_history |-> EmptyMap, sell_history |-> EmptyMap, outcome |-> "running"]

\* process_trade (src/main.py:584-597) on a record of the stores.
TradeStep(st, prices, date, r) ==
    LET eod_price == get_daily_price(prices, date, r.ticker)
        curr_ticker == st.heap[CurrRef][r.ticker]
    IN  [st EXCEPT
            !.buy_history =
                IF r.order_type = "BUY"
                THEN add_buy(st.buy_history, date, Buy(r.ticker, eod_price, r.qty))
                ELSE st.buy_history,
            !.sell_history =
                IF r.order_type = "BUY" THEN st.sell_history
                ELSE add_sell(st.sell_history, date,
                              SellOf(curr_ticker, r.ticker, eod_price, r.qty)),
            !.heap = [st.heap EXCEPT ![CurrRef] =
                         TradeInventory(st.heap[CurrRef], prices, date,
                                        r.ticker, r.qty, r.order_type)]]

\* daily_update (src/main.py:632-633) on a record of the stores.
UpdateStep(st, prices, date) ==
    LET marked == [st.heap EXCEPT ![CurrRef] =
                       calc_unrealized_profits(st.heap[CurrRef], prices, date)]
    IN  [st EXCEPT !.heap = take_snapshot_heap(marked, st.snapshot, date),
                   !.snapshot = take_snapshot_store(st.snapshot, date)]

\* 1022-1023
RECURSIVE TailLoop(_, _, _)
TailLoop(st, prices, dates) ==
    IF dates = <<>> THEN [st EXCEPT !.outcome = "done"]
    ELSE TailLoop(UpdateStep(st, prices, Head(dates)), prices, Tail(dates))

\* 1017-1021, the cursor at date cursor and the dates left in the list.
RECURSIVE RowsLoop(_, _, _, _, _)
RowsLoop(st, prices, cursor, dates, rs) ==
    IF rs = <<>> THEN TailLoop(st, prices, dates)
    ELSE IF cursor = Head(rs).date
    THEN RowsLoop(TradeStep(st, prices, cursor, Head(rs)), prices, cursor, dates, Tail(rs))
    ELSE IF dates = <<>>
    THEN [UpdateStep(st, prices, cursor) EXCEPT !.outcome = "error"]
    ELSE RowsLoop(UpdateStep(st, prices, cursor), prices, Head(dates), Tail(dates), rs)

\* 1016-1023
Replay(file, rs) ==
    IF file = <<>> THEN [StoresAtStart EXCEPT !.outcome = "error"]
    ELSE RowsLoop(StoresAtStart, PriceTable(file), Head(file), Tail(file), rs)

---------------------------------------------------------------------------
(* The operations called in any order: process_trade and daily_update on   *)
(* any date of a loaded price table, as a caller other than the replay     *)
(* loop may call them.                                                     *)

\* The price file of the spec's scenario: 2020-01-02 and 2020-01-03.
ScenarioFile == SubSeq(Calendar, 1, 2)

InitApi ==
    /\ price_daily = PriceTable(ScenarioFile)
    /\ update_dates = ScenarioFile
    /\ update_date = NoDate
    /\ rows = <<>>
    /\ pc = "api"
    /\ loop_i = 0
    /\ InitStores
    /\ q = [op |-> "none", date |-> NoDate, n |-> 0]

ApiTrade ==
    /\ pc = "api"
    /\ q.n < MaxCalls
    /\ \E r \in Rows :
          /\ r.date \in DOMAIN price_daily
          /\ process_trade(r.date, r.ticker, r.qty, r.order_type)
          /\ q' = [op |-> "process_trade", date |-> r.date, n |-> q.n + 1]
    /\ UNCHANGED <<price_daily, update_dates, update_date, rows, pc, loop_i>>

ApiDailyUpdate ==
    /\ pc = "api"
    /\ q.n < MaxCalls
    /\ \E date \in DOMAIN price_daily :
          /\ daily_update(date)
          /\ q' = [op |-> "daily_update", date |-> date, n |-> q.n + 1]
    /\ UNCHANGED <<price_daily, update_dates, update_date, rows, pc, loop_i>>

NextApi ==
    \/ ApiTrade
    \/ ApiDailyUpdate

SpecApi == InitApi /\ [][NextApi]_vars

---------------------------------------------------------------------------
(* get_closest_available_date called on any index of at most MaxIdx dates. *)

IndexDates ==
    { <<2019, 11, 20>>, <<2019, 12, 31>>, <<2020, 1, 2>>, <<2020, 1, 15>>,
      <<2020, 2, 3>>, <<2020, 3, 10>>, <<2021, 1, 5>> }

TargetDates ==
    IndexDates \cup
    { <<2018, 5, 5>>, <<2020, 1, 1>>, <<2020, 1, 10>>, <<2020, 2, 1>>,
      <<2020, 2, 20>>, <<2020, 3, 5>>, <<2020, 3, 31>>, <<2020, 12, 31>>,
      <<2021, 1, 1>>,
      <<2021, 2, 1>>, <<2022, 6, 15>> }

Pending == [err |-> "pending", date |-> NoDate]

InitDate ==
    /\ price_daily = EmptyMap
    /\ update_dates = <<>>
    /\ update_date = NoDate
    /\ rows = <<>>
    /\ pc = "lookup"
    /\ loop_i = 0
    /\ InitStores
    /\ \E D \in SUBSET IndexDates, t \in TargetDates :
          /\ Cardinality(D) <= MaxIdx
          /\ q = [op |-> "get_closest_available_date", index |-> D,
                  target |-> t, result |-> Pending]

Lookup ==
    /\ pc = "lookup"
    /\ q.result = Pending
    /\ q' = [q EXCEPT !.result =
                get_closest_available_date(q.target[1], q.target[2], q.target[3], q.index)]
    /\ UNCHANGED <<price_daily, update_dates, update_date, rows, pc, loop_i, heap,
                   inventory_snapshot, buy_history, sell_history, applied>>

NextDate == Lookup

SpecDate == InitDate /\ [][NextDate]_vars

---------------------------------------------------------------------------
(* A third way to run the program: one call of get_all_dates.              *)

\* The start and end dates asked for: around the end of a year, the end of
\* February in a leap year and in a common year, and a day no month has.
\* A range never runs from the first group of dates into 2021.
RangeDates ==
    { <<2019, 12, 30>>, <<2019, 12, 31>>, <<2020, 1, 1>>, <<2020, 1, 2>>,
      <<2020, 2, 28>>, <<2020, 2, 29>>, <<2020, 3, 1>>, <<2020, 3, 2>>,
      <<2021, 2, 27>>, <<2021, 2, 28>>, <<2021, 3, 1>>, <<2021, 2, 29>> }
RangeInputs ==
    {p \in RangeDates \X RangeDates : p[1][1] = 2021 \/ p[2][1] < 2021}

PendingDates == [err |-> "pending", dates |-> <<>>]

InitRange ==
    /\ price_daily = EmptyMap
    /\ update_dates = <<>>
    /\ update_date = NoDate
    /\ rows = <<>>
    /\ pc = "range"
    /\ loop_i = 0
    /\ InitStores
    /\ \E p \in RangeInputs :
          q = [op |-> "get_all_dates", start |-> p[1], end |-> p[2],
               result |-> PendingDates]

Enumerate ==
    /\ pc = "range"
    /\ q.result = PendingDates
    /\ q' = [q EXCEPT !.result = get_all_dates(q.start, q.end)]
    /\ UNCHANGED <<price_daily, update_dates, update_date, rows, pc, loop_i, heap,
                   inventory_snapshot, buy_history, sell_history, applied>>

NextRange == Enumerate

SpecRange == InitRange /\ [][NextRange]_vars

---------------------------------------------------------------------------
(* Helpers of the properties.                                              *)

\* 2^k, |a| and |a| <= |b| of floats.
TwoTo(k) == [s |-> 1, m |-> <<1>>, e |-> k]
RAbs(a) == [a EXCEPT !.s = a.s * a.s]
RAbsLeq(a, b) == ~RLess(RAbs(b), RAbs(a))

\* The trade process_trade has just executed, in a step that executed one.
TradeExecuted == Len(applied') = Len(applied) + 1
LastTrade == applied[Len(applied)]

\* The dates of the price table, and those at or before a date.
PriceDates == DOMAIN price_daily
SnapshotDates == DOMAIN inventory_snapshot

\* The indexed dates at or before a target, and the latest of them.
AtOrBefore(D, t) == {x \in D : DateLe(x, t)}
Latest(S) == CHOOSE x \in S : \A z \in S : DateLe(z, x)

\* Sums over the executed trades of one ticker.
RECURSIVE SumQty(_, _)
SumQty(log, t) ==
    IF log = <<>> THEN 0
    ELSE (IF Head(log).ticker = t THEN Head(log).qty ELSE 0) + SumQty(Tail(log), t)

\* The sum of price * qty over the executed trades of a ticker, in the
\* order executed.
SumPaid(log, t) ==
    LET own == SelectSeq(log, LAMBDA r : r.ticker = t)
    IN  RSum([i \in 1..Len(own) |->
                 RMul(price_daily[own[i].date][t], RInt(own[i].qty))])

OnlyBuys(log, t) ==
    \A i \in 1..Len(log) : log[i].ticker = t => log[i].order_type = "BUY"

\* The first executed trade with the date, ticker and side of the i-th.
FirstLike(i) ==
    Min({j \in 1..i : /\ applied[j].date = applied[i].date
                      /\ applied[j].ticker = applied[i].ticker
                      /\ applied[j].order_type = applied[i].order_type})

\* The executed trades dated at or before a date, in the order executed, and
\* the positions they lead to from a new inventory.
TradesUpTo(log, d) == SelectSeq(log, LAMBDA r : DateLe(r.date, d))

RECURSIVE PositionsAfter(_, _)
PositionsAfter(inv, log) ==
    IF log = <<>> THEN inv
    ELSE PositionsAfter(TradeInventory(inv, price_daily, Head(log).date, Head(log).ticker,
                                       Head(log).qty, Head(log).order_type),
                        Tail(log))

\* The profit and the cost of an executed sale, from the position before it.
SaleProfit(r) == RMul(RSub(r.price, avg_price(r.before)), RInt(r.qty))
SaleCost(r) == RMul(avg_price(r.before), RInt(r.qty))

\* price * qty of an executed trade.
Proceeds(r) == RMul(r.price, RInt(r.qty))

\* Is the i-th executed trade a sale, and the first of its date and ticker?
IsSale(i) == applied[i].order_type = "SELL"
IsFirstSale(i) == IsSale(i) /\ FirstLike(i) = i

\* The <<date, ticker>> pairs of the sum_profits_costs call in q, in the order
\* the call visits them, and a figure of the first executed sale of a pair
\* (0 when the pair has no sale).
PairsOfCall ==
    [n \in 1..(Len(q.a \o q.b) * Len(q.tickers)) |->
        <<(q.a \o q.b)[((n - 1) \div Len(q.tickers)) + 1],
          q.tickers[((n - 1) % Len(q.tickers)) + 1]>>]
OfFirstSale(pair, F(_)) ==
    LET first == {i \in 1..Len(applied) :
                     /\ IsFirstSale(i)
                     /\ applied[i].date = pair[1] /\ applied[i].ticker = pair[2]}
    IN  IF first = {} THEN RZero ELSE F(applied[CHOOSE i \in first : TRUE])

\* +1 for a purchase of the ticker, -1 for a sale of it, 0 for another ticker.
Signed(r, t) ==
    IF r.ticker # t THEN 0 ELSE IF r.order_type = "BUY" THEN 1 ELSE 0 - 1

\* The replay is about to call daily_update (1019 or 1023), and the date it
\* calls it for.
AtDailyUpdate ==
    \/ pc = "while" /\ update_date # CurrentRow.date
    \/ pc = "tail" /\ loop_i <= Len(update_dates)
DailyUpdateDate == IF pc = "while" THEN update_date ELSE update_dates[loop_i]

\* cash + cost of the live position of a ticker, and the sum of
\* (price - average price before the sale) * qty over the executed sales of it.
CashPlusCost(t) == RAdd(inventory_curr[t].cash, inventory_curr[t].cost)
ProfitOfSales(t) ==
    RSum([i \in 1..Len(applied) |->
             IF applied[i].ticker = t /\ IsSale(i) THEN SaleProfit(applied[i]) ELSE RZero])

\* The replay is at a row whose date is neither the cursor's date nor among
\* the dates still in the list.
Unmatched ==
    /\ pc = "while"
    /\ CurrentRow.date # update_date
    /\ CurrentRow.date \notin SeqRange(update_dates)

\* The dates of a list that have a snapshot and a benchmark price, in order.
Retained(dates, snap, market_prices) ==
    SelectSeq(dates, LAMBDA d : d \in DOMAIN snap /\ d \in DOMAIN market_prices)

\* The two lists of a get_returns_timespan call pair the consecutive retained
\* dates of its date list, and nothing else.
ReturnsAligned ==
    LET market_prices == [d \in {x \in DOMAIN q.market :
                                    /\ DateLe(q.dates[1], x)
                                    /\ DateLe(x, q.dates[Len(q.dates)])} |-> q.market[d]]
        R == Retained(q.dates, inventory_snapshot, market_prices)
        n == IF Len(R) > 1 THEN Len(R) - 1 ELSE 0
    IN  /\ Len(q.result.ret) = n
        /\ Len(q.result.ret_market) = n
        /\ \A i \in 1..n :
              /\ q.result.ret[i] =
                     get_profits_cost(sell_history, heap, inventory_snapshot,
                                      <<R[i], R[i + 1]>>, q.tickers).total_profits_percent
              /\ q.result.ret_market[i] = RSub(q.market[R[i + 1]], q.market[R[i]])

\* The profit and the cost of the sells the ledger holds for a date, over
\* the tickers of the call.
LedgerProfit(d) == SumSellsOfDate(sell_history, d, q.tickers)[1]
LedgerCost(d) == SumSellsOfDate(sell_history, d, q.tickers)[2]

\* The sums of the sells the ledger holds for a pair of dates: those of the
\* first date, then those of the second added to them.
LedgerOfPair(prev, cur) ==
    AddSellsOfDate(SumSellsOfDate(sell_history, prev, q.tickers),
                   sell_history, cur, q.tickers)

\* The return of a pair of retained dates: the sells of both dates and the
\* snapshot of the second, profit over cost in percent.
PairReturn(prev, cur) ==
    LET inventory == StoredSnapshot(cur)
        total_profits == RAdd(LedgerOfPair(prev, cur)[1],
                              InventoryProfits(inventory, q.tickers))
        total_cost == RAdd(LedgerOfPair(prev, cur)[2],
                           InventoryCosts(inventory, q.tickers))
    IN  IF RLess(EPS, total_cost)
        THEN RMul(RDiv(total_profits, total_cost), RInt(100)) ELSE RZero

\* The retained dates of the get_returns_timespan call in q.
RetainedOfCall ==
    Retained(q.dates, inventory_snapshot,
             get_stock_price_yfinance(q.market, q.dates[1], q.dates[Len(q.dates)]))

\* The price file the replay was started on: the dates of the price table
\* in date order.
RECURSIVE InDateOrder(_)
InDateOrder(S) ==
    IF S = {} THEN <<>>
    ELSE LET first == CHOOSE x \in S : \A z \in S : DateLe(x, z)
         IN  <<first>> \o InDateOrder(S \ {first})

\* The stores and the outcome of the replay, once it has ended and before
\* any call is made on them.
Ended == pc \in {"done", "error"} /\ q = NoCall
FinalStores ==
    [heap |-> heap, snapshot |-> inventory_snapshot, buy_history |-> buy_history,
     sell_history |-> sell_history, outcome |-> pc]

\* A list of rows with the rows at two positions exchanged.
Swapped(rs, i, j) ==
    [k \in 1..Len(rs) |-> IF k = i THEN rs[j] ELSE IF k = j THEN rs[i] ELSE rs[k]]

---------------------------------------------------------------------------
(* C1.  After the replay has finished without error, the snapshot store    *)
(* holds a snapshot for every date of the price table.  Stated as the      *)
(* claim states it; the code never commits the date the cursor is at when  *)
(* the transaction file ends.                                              *)
C1_SnapshotForEveryPriceDate ==
    pc = "done" => \A d \in PriceDates : d \in SnapshotDates

(* C2.  Whenever get_closest_available_date returns, the date returned is  *)
(* the latest indexed date at or before the target in (year, month, day)   *)
(* order.  Stated as the claim states it; the code filters the months of   *)
(* an earlier year by the target's month and its days by the target's day. *)
C2_ReturnsLatestAtOrBefore ==
    (q.result.err = "none") =>
        /\ AtOrBefore(q.index, q.target) # {}
        /\ q.result.date = Latest(AtOrBefore(q.index, q.target))

(* C3.  get_closest_available_date returns the target itself when the      *)
(* target is indexed; when it returns and the target is not indexed, the   *)
(* result is an indexed date strictly earlier than the target; it never    *)
(* returns a date later than the target.                                   *)
C3_ExactOrStrictlyEarlier ==
    (q.result # Pending) =>
        /\ q.target \in q.index => q.result = Returned(q.target)
        /\ (q.result.err = "none" /\ q.target \notin q.index) =>
               /\ q.result.date \in q.index
               /\ DateLt(q.result.date, q.target)
        /\ q.result.err = "none" => DateLe(q.result.date, q.target)

\* C3's case: a lookup of a date that is not indexed has returned a date of
\* an earlier month.
C3_Witness ==
    /\ q.result.err = "none"
    /\ q.target \notin q.index
    /\ q.result.date[2] # q.target[2]
    /\ \E x \in q.index : x[1] = q.target[1] /\ x[2] = q.target[2]

(* C4.  Every position's quantity is >= 0, in the live portfolio and in    *)
(* every committed snapshot.  Stated as the claim states it; process_trade *)
(* subtracts the sold quantity without a guard.                            *)
C4_QuantityNonNegative ==
    /\ \A t \in all_tickers : inventory_curr[t].qty >= 0
    /\ \A d \in SnapshotDates : \A t \in all_tickers : StoredSnapshot(d)[t].qty >= 0

(* C5.  A SELL of qty at closing price p on a position with pre-sale       *)
(* average price avg = cost/qty records a Sell with profit (p - avg)*qty   *)
(* and cost avg*qty (the ledger keeps it when it holds no Sell for that    *)
(* date and ticker yet), decreases cost by avg*qty, decreases the quantity *)
(* by qty and increases cash by p*qty; other tickers are unchanged.        *)
C5_SellAccounting ==
    [][ (TradeExecuted /\ applied'[Len(applied')].order_type = "SELL"
           /\ inventory_curr[applied'[Len(applied')].ticker].qty # 0) =>
        LET e == applied'[Len(applied')]
            t == e.ticker
            a == inventory_curr[t]
            b == inventory_curr'[t]
            p == price_daily[e.date][t]
            n == RInt(e.qty)
            avg == RDiv(a.cost, RInt(a.qty))
            k == <<e.date[1], e.date[2], e.date[3], t>>
        IN  /\ b.cost = RSub(a.cost, RMul(avg, n))
            /\ b.qty = a.qty - e.qty
            /\ b.cash = RAdd(a.cash, RMul(p, n))
            /\ b.value = a.value
            /\ \A u \in all_tickers \ {t} : inventory_curr'[u] = inventory_curr[u]
            /\ k \in DOMAIN sell_history'
            /\ k \notin DOMAIN sell_history =>
                  /\ sell_history'[k].profit = RMul(RSub(p, avg), n)
                  /\ sell_history'[k].cost = RMul(avg, n)
                  /\ sell_history'[k].qty = e.qty
      ]_vars

\* C5's case: 10 bought at 100, 5 of them sold at 110: profit 50, 5 left at cost 500.
C5_Witness ==
    /\ applied # <<>>
    /\ LastTrade.order_type = "SELL" /\ LastTrade.qty = 5 /\ LastTrade.price = RInt(110)
    /\ LastTrade.before.qty = 10 /\ LastTrade.before.cost = RInt(1000)
    /\ inventory_curr[LastTrade.ticker].qty = 5
    /\ inventory_curr[LastTrade.ticker].cost = RInt(500)
    /\ sell_history[<<2020, 1, 3, LastTrade.ticker>>].profit = RInt(50)

(* C6.  After buys only on a ticker, from the zero position, its quantity  *)
(* is the sum of the bought quantities, its cost the sum of price*qty, its *)
(* cash minus that sum, and its average price the quantity-weighted mean   *)
(* of the buy prices.                                                      *)
C6_BuysAccumulate ==
    \A t \in all_tickers :
        OnlyBuys(applied, t) =>
            /\ inventory_curr[t].qty = SumQty(applied, t)
            /\ inventory_curr[t].cost = SumPaid(applied, t)
            /\ inventory_curr[t].cash = RNeg(SumPaid(applied, t))
            /\ SumQty(applied, t) > 0 =>
                  avg_price(inventory_curr[t])
                      = RDiv(SumPaid(applied, t), RInt(SumQty(applied, t)))

\* C6's case: two buys of one ticker at different prices, and no sell of it.
C6_Witness ==
    \E t \in all_tickers :
        /\ OnlyBuys(applied, t)
        /\ \E i, j \in 1..Len(applied) :
              /\ applied[i].ticker = t /\ applied[j].ticker = t
              /\ applied[i].price # applied[j].price
              /\ applied[i].qty # applied[j].qty

(* C7.  A SELL of exactly the held, positive quantity leaves the quantity  *)
(* and the cost of the position 0, whatever buys and partial sells came    *)
(* before.  This is the claim as it was made: the cost the program is left *)
(* with is cost - (cost / qty) * qty in binary64, which need not be 0.     *)
C7_FullSellZeroes ==
    [][ (TradeExecuted /\ applied'[Len(applied')].order_type = "SELL"
           /\ inventory_curr[applied'[Len(applied')].ticker].qty > 0
           /\ applied'[Len(applied')].qty
                 = inventory_curr[applied'[Len(applied')].ticker].qty) =>
        /\ inventory_curr'[applied'[Len(applied')].ticker].qty = 0
        /\ inventory_curr'[applied'[Len(applied')].ticker].cost = RZero
      ]_vars

(* C7, amended.  A SELL of exactly the held, positive quantity leaves the  *)
(* quantity of the position 0 and its cost 0 up to floating tolerance: the *)
(* cost left is at most 2^-51 times the cost before the sale in magnitude. *)
C7_FullSellZeroesUpToTolerance ==
    [][ (TradeExecuted /\ applied'[Len(applied')].order_type = "SELL"
           /\ inventory_curr[applied'[Len(applied')].ticker].qty > 0
           /\ applied'[Len(applied')].qty
                 = inventory_curr[applied'[Len(applied')].ticker].qty) =>
        /\ inventory_curr'[applied'[Len(applied')].ticker].qty = 0
        /\ RAbsLeq(inventory_curr'[applied'[Len(applied')].ticker].cost,
                   RMul(TwoTo(-51), inventory_curr[applied'[Len(applied')].ticker].cost))
      ]_vars

\* C7's case: the whole of a position bought at two prices has been sold,
\* and the cost left is not 0.
C7_Witness ==
    /\ applied # <<>>
    /\ LastTrade.order_type = "SELL"
    /\ LastTrade.before.qty > 0
    /\ LastTrade.before.qty = LastTrade.qty
    /\ inventory_curr[LastTrade.ticker].qty = 0
    /\ inventory_curr[LastTrade.ticker].cost # RZero

(* C8.  Once a snapshot is committed for a date, the stored positions of   *)
(* that date never change: later trades, marks to market and commits leave *)
(* the snapshot as it was.                                                 *)
C8_SnapshotsImmutable ==
    [][ \A d \in SnapshotDates :
           /\ d \in SnapshotDates'
           /\ StoredSnapshot(d)' = StoredSnapshot(d) ]_vars

\* C8's case: a snapshot is stored, and the live portfolio has been traded
\* and committed again since.
C8_Witness ==
    \E d, e \in SnapshotDates :
        /\ DateLt(d, e)
        /\ StoredSnapshot(d) # StoredSnapshot(e)
        /\ \E t \in all_tickers : StoredSnapshot(d)[t].qty # inventory_curr[t].qty

(* C9.  take_snapshot for a date that already has a snapshot leaves the    *)
(* stored snapshot of that date unchanged (the first commit wins) even     *)
(* when the portfolio passed differs, and leaves the other dates' too.     *)
C9_FirstCommitWins ==
    [][ (q'.op = "daily_update" /\ q'.n = q.n + 1 /\ q'.date \in SnapshotDates) =>
           /\ SnapshotDates' = SnapshotDates
           /\ \A d \in SnapshotDates : StoredSnapshot(d)' = StoredSnapshot(d)
      ]_vars

\* C9's case: a second commit of a date has been made with a portfolio that
\* differs from the one stored for it.
C9_Witness ==
    /\ q.op = "daily_update"
    /\ q.date \in SnapshotDates
    /\ \E t \in all_tickers : StoredSnapshot(q.date)[t].qty # inventory_curr[t].qty

(* C10.  The ledger holds, per (year, month, day, ticker), at most one Buy *)
(* and one Sell, the first inserted for the key: each side's keys are      *)
(* those of the executed trades of that side, and the stored event is the  *)
(* one of the first executed trade with that key and side.                 *)
C10_LedgerKeepsFirst ==
    /\ DOMAIN buy_history =
          {Key(applied[i].date, applied[i].ticker) :
              i \in {j \in 1..Len(applied) : applied[j].order_type = "BUY"}}
    /\ DOMAIN sell_history =
          {Key(applied[i].date, applied[i].ticker) :
              i \in {j \in 1..Len(applied) : applied[j].order_type = "SELL"}}
    /\ \A i \in 1..Len(applied) :
          LET f == applied[FirstLike(i)]
              k == Key(f.date, f.ticker)
          IN  IF f.order_type = "BUY"
              THEN buy_history[k] = Buy(f.ticker, f.price, f.qty)
              ELSE /\ sell_history[k].ticker = f.ticker
                   /\ sell_history[k].price = f.price
                   /\ sell_history[k].qty = f.qty
                   /\ sell_history[k].cost = RMul(avg_price(f.before), RInt(f.qty))

\* C10's case: two sells of one ticker on one date, of different quantities,
\* and a buy of it on that date as well.
C10_Witness ==
    \E i, j, b \in 1..Len(applied) :
        /\ i < j
        /\ applied[i].order_type = "SELL" /\ applied[j].order_type = "SELL"
        /\ applied[b].order_type = "BUY"
        /\ applied[i].date = applied[j].date /\ applied[i].ticker = applied[j].ticker
        /\ applied[b].date = applied[j].date /\ applied[b].ticker = applied[j].ticker
        /\ applied[i].qty # applied[j].qty

(* C11.  When the replay is at a transaction whose date is neither the     *)
(* cursor's date nor among the price dates still in the list, every step   *)
(* it takes either pops one date off the list and stays at that            *)
(* transaction or ends in the error of popping the empty list; it applies  *)
(* no trade, and once it has ended in error it never completes.            *)
C11_UnmatchedDateIsFatal ==
    [][ /\ Unmatched =>
              /\ applied' = applied
              /\ rows' = rows
              /\ buy_history' = buy_history /\ sell_history' = sell_history
              /\ \/ pc' = "error" /\ update_dates = <<>>
                 \/ /\ pc' = "while"
                    /\ Len(update_dates') = Len(update_dates) - 1
                    /\ Unmatched'
        /\ pc = "error" => pc' = "error"
      ]_vars

\* C11's case: the replay has ended in error at a transaction dated in the
\* price table but earlier than a transaction applied before it.
C11_Witness ==
    /\ pc = "error"
    /\ rows # <<>>
    /\ Len(applied) = Len(rows) - 1
    /\ CurrentRow.date \in PriceDates
    /\ \E i \in 1..Len(applied) : DateLt(CurrentRow.date, applied[i].date)

(* C12.  In the result of get_profits_cost each of the three percentages   *)
(* (realized, unrealized, total) is profit / cost * 100 when its cost is    *)
(* above EPS and 0 when its cost is at or below EPS, zero and negative      *)
(* costs included; the call fails only when the closest-date lookup fails.  *)
C12_PercentGuarded ==
    (q.op = "get_profits_cost") =>
        LET r == q.result
            last == q.dates[Len(q.dates)]
            IsPct(pct, p, c) ==
                IF RLess(EPS, c)
                THEN pct = RMul(RDiv(p, c), RInt(100))
                ELSE pct = RZero
        IN  IF r.err = "none"
            THEN /\ IsPct(r.realized_profits_percent, r.realized_profits, r.realized_cost)
                 /\ IsPct(r.unrealized_profits_percent, r.unrealized_profits,
                          r.unrealized_cost)
                 /\ IsPct(r.total_profits_percent, r.total_profits, r.total_cost)
            ELSE get_closest_available_date(last[1], last[2], last[3],
                                            SnapshotDates).err # "none"

\* C12's case: a call has returned a total cost of 0 with a total profit
\* that is not 0, and a total percentage of 0.
C12_Witness ==
    /\ q.op = "get_profits_cost"
    /\ q.result.err = "none"
    /\ q.result.total_cost = RZero
    /\ q.result.total_profits # RZero
    /\ q.result.total_profits_percent = RZero

(* C13.  For two disjoint date lists A and B and a ticker list, the         *)
(* realized profit and cost summed over A plus those summed over B equal   *)
(* the realized profit and cost summed over A and B together.  This is the *)
(* claim as it was made: the floats are added in another order on the two  *)
(* sides, and the sums of three sells or more can differ in the last bit.  *)
C13_RealizedAdditive ==
    (q.op = "sum_profits_costs") =>
        /\ q.result.ab[1] = RAdd(q.result.a[1], q.result.b[1])
        /\ q.result.ab[2] = RAdd(q.result.a[2], q.result.b[2])

\* The sells the ledger holds for the dates and tickers of the call in q,
\* and the sums of the magnitudes of their profits and of their costs.
SellsOfCall ==
    {k \in DOMAIN sell_history :
        /\ <<k[1], k[2], k[3]>> \in SeqRange(q.a \o q.b)
        /\ k[4] \in SeqRange(q.tickers)}
MagnitudesOfCall ==
    sum_profits_costs([k \in DOMAIN sell_history |->
                          [sell_history[k] EXCEPT !.profit = RAbs(@), !.cost = RAbs(@)]],
                      q.a \o q.b, q.tickers)

\* Do x and y differ by no more than 2^-52 * n * magnitude?
WithinRounding(x, y, n, magnitude) ==
    RAbsLeq(RSub(x, y), RMul(RMul(TwoTo(-52), RInt(n)), magnitude))

(* C13, amended.  For two disjoint date lists A and B and a ticker list,   *)
(* the realized profit and cost summed over A plus those summed over B     *)
(* equal the realized profit and cost summed over A and B together up to   *)
(* floating tolerance: the two differ by no more than 2^-52 times the      *)
(* number of sells summed times the sum of the magnitudes of their profits *)
(* (of their costs).                                                       *)
C13_RealizedAdditiveUpToTolerance ==
    (q.op = "sum_profits_costs") =>
        /\ WithinRounding(q.result.ab[1], RAdd(q.result.a[1], q.result.b[1]),
                          Cardinality(SellsOfCall), MagnitudesOfCall[1])
        /\ WithinRounding(q.result.ab[2], RAdd(q.result.a[2], q.result.b[2]),
                          Cardinality(SellsOfCall), MagnitudesOfCall[2])

\* C13's case: both lists hold a sell of a listed ticker with a profit that
\* is not 0, and the sum over the two lists joined is not the sum of the sums.
C13_Witness ==
    /\ q.op = "sum_profits_costs"
    /\ q.result.a[1] # RZero
    /\ q.result.b[1] # RZero
    /\ q.result.ab[1] # RAdd(q.result.a[1], q.result.b[1])

(* C14.  get_returns_timespan returns two lists of equal length for every  *)
(* date list: a date is retained only if it has an exact snapshot and a    *)
(* benchmark price, and both lists have length max(0, retained - 1), with  *)
(* element i pairing the i-th and (i+1)-th retained dates.  Stated as the  *)
(* claim states it, the empty date list included.                          *)
C14_AlignedForEveryList ==
    (q.op = "get_returns_timespan") =>
        /\ q.result.err = "none"
        /\ ReturnsAligned

(* C14, amended.  For every date list that is not empty,                   *)
(* get_returns_timespan returns two lists of equal length: a date is       *)
(* retained only if it has an exact snapshot and a benchmark price, and    *)
(* both lists have length max(0, retained - 1), with element i pairing the *)
(* i-th and (i+1)-th retained dates.                                       *)
C14_AlignedForNonEmptyList ==
    (q.op = "get_returns_timespan" /\ q.dates # <<>>) =>
        /\ q.result.err = "none"
        /\ ReturnsAligned

\* C14's case: a call on five dates has returned two pairs over three
\* retained dates; a date with a benchmark price and no snapshot was skipped.
C14_Witness ==
    /\ q.op = "get_returns_timespan"
    /\ q.result.err = "none"
    /\ Len(q.dates) = 5
    /\ Len(q.result.ret) = 2
    /\ \E d \in SeqRange(q.dates) : d \in DOMAIN q.market /\ d \notin SnapshotDates
    /\ q.result.ret[1] # q.result.ret[2]
    /\ q.result.ret[1] # RZero

(* C15.  The beta inside get_alpha, get_beta(ret_market, ret_market), is   *)
(* 1 for every benchmark return series of at least two elements and        *)
(* non-zero variance.  Stated as the claim states it; np.cov divides by    *)
(* len - 1 and np.var by len, so the code's beta is len / (len - 1).       *)
C15_SelfBetaIsOne ==
    (/\ q.op = "get_alpha"
     /\ q.result.err = "none"
     /\ Len(q.result.ret_market) >= 2
     /\ \E i, j \in 1..Len(q.result.ret_market) :
            q.result.ret_market[i] # q.result.ret_market[j])
        => q.result.beta = RInt(1)

(* C16.  get_closest_available_date fails with an error, and returns no    *)
(* date, when the index is empty and when the target is strictly earlier   *)
(* than every indexed date: in an earlier year, in the first indexed year  *)
(* before its first month, or in the first indexed month before its first  *)
(* day.                                                                    *)
C16_BeforeFirstDateFails ==
    (/\ q.op = "get_closest_available_date"
     /\ q.result # Pending
     /\ \A x \in q.index : DateLt(q.target, x))
        => q.result.err \in {"ValueError", "KeyError"}

\* C16's case: a lookup has failed on a target in the first indexed month,
\* before its first indexed day.
C16_Witness ==
    /\ q.op = "get_closest_available_date"
    /\ q.result.err = "KeyError"
    /\ \A x \in q.index : DateLt(q.target, x)
    /\ \E x \in q.index :
          /\ x[1] = q.target[1] /\ x[2] = q.target[2]
          /\ Cardinality(q.index) > 1

(* C17.  get_profits_cost(dates, tickers) takes its unrealized profit and  *)
(* cost from the snapshot of the latest committed date at or before the    *)
(* last element of dates (value - cost and cost summed over the tickers),  *)
(* its realized profit and cost from the ledger's sells over dates x       *)
(* tickers, and returns the sums of the two as its totals.  Stated as the  *)
(* claim states it; the snapshot the code reads is the one                 *)
(* get_closest_available_date finds, which is not always the latest.       *)
C17_ProfitsFromClosestSnapshot ==
    (/\ q.op = "get_profits_cost"
     /\ AtOrBefore(SnapshotDates, q.dates[Len(q.dates)]) # {}) =>
        LET r == q.result
            inv == StoredSnapshot(Latest(AtOrBefore(SnapshotDates, q.dates[Len(q.dates)])))
            OfTickers(F(_)) == RSum([i \in 1..Len(q.tickers) |-> F(q.tickers[i])])
            realized == sum_profits_costs(sell_history, q.dates, q.tickers)
        IN  /\ r.err = "none"
            /\ r.unrealized_profits = OfTickers(LAMBDA t : RSub(inv[t].value, inv[t].cost))
            /\ r.unrealized_cost = OfTickers(LAMBDA t : inv[t].cost)
            /\ r.realized_profits = realized[1]
            /\ r.realized_cost = realized[2]
            /\ r.total_profits = RAdd(r.realized_profits, r.unrealized_profits)
            /\ r.total_cost = RAdd(r.realized_cost, r.unrealized_cost)

(* C18.  Exchanging two transactions of the file that have the same date   *)
(* and distinct tickers yields the same final positions, the same ledger   *)
(* and the same snapshots.  Stated as the claim states it, for any two     *)
(* such rows of a file whose replay completes.                             *)
C18_SwapAnyTwo ==
    /\ Ended => FinalStores = Replay(InDateOrder(PriceDates), rows)
    /\ (Ended /\ pc = "done") =>
          \A i, j \in 1..Len(rows) :
              (i < j /\ rows[i].date = rows[j].date /\ rows[i].ticker # rows[j].ticker)
                  => Replay(InDateOrder(PriceDates), Swapped(rows, i, j)) = FinalStores

(* C18, amended.  In a file whose replay completes, exchanging two         *)
(* transactions that have the same date and distinct tickers, with no      *)
(* transaction of either's ticker between them (two adjacent ones in       *)
(* particular), yields the same final positions, the same ledger and the   *)
(* same snapshots.                                                         *)
C18_SwapIndependent ==
    /\ Ended => FinalStores = Replay(InDateOrder(PriceDates), rows)
    /\ (Ended /\ pc = "done") =>
          \A i, j \in 1..Len(rows) :
              (/\ i < j /\ rows[i].date = rows[j].date /\ rows[i].ticker # rows[j].ticker
               /\ \A k \in (i + 1)..(j - 1) :
                     rows[k].ticker \notin {rows[i].ticker, rows[j].ticker})
                  => Replay(InDateOrder(PriceDates), Swapped(rows, i, j)) = FinalStores

\* C18's case: the replay has completed on a file whose last two rows are a
\* sell and a buy of one date and distinct tickers, after a buy of the sold
\* ticker, and the date was committed after them.
C18_Witness ==
    /\ pc = "done" /\ q = NoCall
    /\ Len(rows) = 3
    /\ rows[2].date = rows[3].date /\ rows[2].ticker # rows[3].ticker
    /\ rows[1].order_type = "BUY" /\ rows[1].ticker = rows[2].ticker
    /\ rows[2].order_type = "SELL" /\ rows[3].order_type = "BUY"
    /\ rows[1].date # rows[2].date
    /\ Len(applied) = 3
    /\ \E d \in SnapshotDates : DateLt(rows[3].date, d)

(* C19.  Once the replay has completed, a call of get_profits_cost,        *)
(* get_returns_timespan, sum_profits_costs, get_sell, InventorySnapshot.get,*)
(* get_closest_inventory or get_closest_available_date leaves the snapshot *)
(* store, the snapshots it holds, the trade ledger and the live portfolio  *)
(* as they were, also when the date or ticker asked for has no entry.      *)
C19_MetricsReadOnly ==
    [][ (pc = "done" /\ q'.op \in {"get_profits_cost", "get_returns_timespan",
                                   "sum_profits_costs", "get_sell", "get",
                                   "get_closest_inventory",
                                   "get_closest_available_date", "get_alpha"}) =>
           /\ inventory_snapshot' = inventory_snapshot
           /\ heap' = heap
           /\ sell_history' = sell_history
           /\ buy_history' = buy_history
      ]_vars

\* C19's case: after a replay that sold and committed, InventorySnapshot.get
\* has been asked for a date that has no snapshot and has returned None.
C19_Witness ==
    /\ pc = "done"
    /\ q.op = "get"
    /\ q.date \notin SnapshotDates
    /\ q.result = NoInventory
    /\ SnapshotDates # {}
    /\ sell_history # EmptyMap

(* C20.  A SELL on a position whose quantity is 0 is executed without      *)
(* error: the average price is taken as 0, the Sell recorded for it (the   *)
(* ledger keeps it when it holds no Sell for that date and ticker yet) has *)
(* profit price * qty and cost 0, the cost of the position is unchanged    *)
(* and its cash increases by price * qty.                                  *)
C20_SellOnEmptyPosition ==
    [][ (TradeExecuted /\ applied'[Len(applied')].order_type = "SELL"
           /\ inventory_curr[applied'[Len(applied')].ticker].qty = 0) =>
        LET e == applied'[Len(applied')]
            t == e.ticker
            a == inventory_curr[t]
            b == inventory_curr'[t]
            proceeds == RMul(price_daily[e.date][t], RInt(e.qty))
            k == <<e.date[1], e.date[2], e.date[3], t>>
        IN  /\ pc' # "error"
            /\ avg_price(a) = RZero
            /\ b.cost = a.cost
            /\ b.cash = RAdd(a.cash, proceeds)
            /\ b.qty = 0 - e.qty
            /\ k \in DOMAIN sell_history'
            /\ k \notin DOMAIN sell_history =>
                  /\ sell_history'[k].profit = proceeds
                  /\ sell_history'[k].cost = RZero
                  /\ sell_history'[k].qty = e.qty
      ]_vars

\* C20's case: a SELL of 10 at 110 has been executed on a position that held
\* nothing: the ledger holds a Sell of profit 1100 and cost 0 for it.
C20_Witness ==
    /\ applied # <<>>
    /\ LastTrade.order_type = "SELL" /\ LastTrade.qty = 10 /\ LastTrade.price = RInt(110)
    /\ LastTrade.before.qty = 0
    /\ inventory_curr[LastTrade.ticker].qty = -10
    /\ inventory_curr[LastTrade.ticker].cost = LastTrade.before.cost
    /\ inventory_curr[LastTrade.ticker].cash = RAdd(LastTrade.before.cash, RInt(1100))
    /\ sell_history[<<2020, 1, 3, LastTrade.ticker>>].profit = RInt(1100)
    /\ sell_history[<<2020, 1, 3, LastTrade.ticker>>].cost = RZero

(* C21. After the price table has been loaded, value, profits, costs and   *)
(* cash of the inventory, sum_profits_costs and get_profits_cost called    *)
(* without a tickers argument give what they give for the full list of     *)
(* tickers read from the price table.                                      *)
C21_DefaultsToUniverse ==
    q.op = "defaults" => q.result = q.loaded

(* C22.  get_all_dates called with a start date later than the end date    *)
(* raises a ValueError; called with start <= end it returns every calendar *)
(* day from start to end inclusive, in ascending order, one day apart,     *)
(* whether indexed or not.  Stated as the claim states it, for dates that  *)
(* exist; the loop of the code does not run when start is after end.       *)
C22_RangeOrValueError ==
    (/\ q.op = "get_all_dates"
     /\ q.result # PendingDates
     /\ ValidDate(q.start) /\ ValidDate(q.end)) =>
        /\ DateLt(q.end, q.start) => q.result.err = "ValueError"
        /\ DateLe(q.start, q.end) =>
              /\ q.result.err = "none"
              /\ {q.result.dates[i] : i \in 1..Len(q.result.dates)} =
                     {d \in (2019..2021) \X (1..12) \X (1..31) :
                          ValidDate(d) /\ DateLe(q.start, d) /\ DateLe(d, q.end)}
              /\ \A i \in 1..(Len(q.result.dates) - 1) :
                     /\ DateLt(q.result.dates[i], q.result.dates[i + 1])
                     /\ q.result.dates[i + 1] = NextDay(q.result.dates[i])

(* C23.  Every committed snapshot for a date d holds the positions that    *)
(* the executed transactions dated <= d lead to, all of them and none      *)
(* dated later, and in it every ticker's value is the price of d times the *)
(* quantity: per date the trades are applied, then all tickers are marked, *)
(* then the snapshot is committed.  When the replay completes, every row   *)
(* of the file has been executed.  Checked in every state of the replay,   *)
(* its last included.                                                      *)
C23_SnapshotReflectsTradesUpToDate ==
    /\ q = NoCall => \A d \in SnapshotDates :
          /\ StoredSnapshot(d) =
                 calc_unrealized_profits(
                     PositionsAfter(NewInventory, TradesUpTo(applied, d)), price_daily, d)
          /\ \A t \in all_tickers :
                 StoredSnapshot(d)[t].value
                            = RMul(price_daily[d][t], RInt(StoredSnapshot(d)[t].qty))
    /\ pc = "done" =>
          /\ Len(applied) = Len(rows)
          /\ \A i \in 1..Len(rows) :
                 /\ applied[i].date = rows[i].date
                 /\ applied[i].ticker = rows[i].ticker
                 /\ applied[i].qty = rows[i].qty
                 /\ applied[i].order_type = rows[i].order_type

\* C23's case: a completed replay with a snapshot for a date that has a
\* transaction of its own, one before it and one after it, the position
\* traded on the date being held in the snapshot.
C23_Witness ==
    /\ pc = "done"
    /\ \E d \in SnapshotDates : \E i, j, k \in 1..Len(applied) :
          /\ DateLt(applied[i].date, d)
          /\ applied[j].date = d
          /\ DateLt(d, applied[k].date)
          /\ StoredSnapshot(d)[applied[j].ticker].qty > 0
          /\ StoredSnapshot(d)[applied[j].ticker].value # RZero
          /\ StoredSnapshot(d) # calc_unrealized_profits(inventory_curr, price_daily, d)

(* C24.  When two sales (or two purchases) of one ticker share a date, the *)
(* ledger keeps the first event only while both are applied to the         *)
(* position: after the replay the realized profit and cost summed from the *)
(* ledger over all dates are those of the first sales of each date and     *)
(* ticker, while quantity, cost and cash of the position are those of all  *)
(* executed transactions.                                                  *)
C24_LedgerOmitsRepeatedSale ==
    (/\ q.op = "sum_profits_costs"
     /\ q.tickers = LoadedTickers
     /\ PriceDates \subseteq SeqRange(q.a \o q.b)) =>
        /\ \A i \in 1..Len(applied) :
              LET r == applied[i]
                  f == applied[FirstLike(i)]
              IN  IF IsSale(i)
                  THEN sell_history[Key(r.date, r.ticker)] =
                           Sell(f.ticker, f.price, f.qty, SaleProfit(f), SaleCost(f))
                  ELSE buy_history[Key(r.date, r.ticker)] = Buy(f.ticker, f.price, f.qty)
        /\ q.result.ab[1] = RSum([n \in 1..Len(PairsOfCall) |->
                                     OfFirstSale(PairsOfCall[n], SaleProfit)])
        /\ q.result.ab[2] = RSum([n \in 1..Len(PairsOfCall) |->
                                     OfFirstSale(PairsOfCall[n], SaleCost)])
        /\ \A t \in all_tickers :
              /\ inventory_curr[t].qty =
                     SumQty([i \in 1..Len(applied) |->
                                [ticker |-> t,
                                 qty |-> Signed(applied[i], t) * applied[i].qty]], t)
              /\ inventory_curr[t].cash =
                     RSum([i \in 1..Len(applied) |->
                              IF applied[i].ticker # t THEN RZero
                              ELSE IF IsSale(i) THEN Proceeds(applied[i])
                              ELSE RNeg(Proceeds(applied[i]))])
              /\ inventory_curr[t].cost =
                     RSum([i \in 1..Len(applied) |->
                              IF applied[i].ticker # t THEN RZero
                              ELSE IF IsSale(i) THEN RNeg(SaleCost(applied[i]))
                              ELSE Proceeds(applied[i])])

\* C24's case: the ledger has been summed over all dates after a replay in
\* which a ticker was sold twice on one date from a position held, the
\* second sale at a profit.
C24_Witness ==
    /\ q.op = "sum_profits_costs"
    /\ q.tickers = LoadedTickers
    /\ PriceDates \subseteq SeqRange(q.a \o q.b)
    /\ \E i, j \in 1..Len(applied) :
          /\ i < j
          /\ IsSale(i) /\ IsSale(j)
          /\ applied[i].date = applied[j].date
          /\ applied[i].ticker = applied[j].ticker
          /\ applied[j].before.qty > 0
          /\ SaleProfit(applied[j]) # RZero
          /\ q.result.ab[1] = SaleProfit(applied[i])

(* C25.  When the target year is indexed but has no indexed month <= the   *)
(* target month, get_closest_available_date returns the largest indexed    *)
(* day of the largest indexed month of the year before, and fails if the   *)
(* year before is not indexed.  Stated as the claim states it; the code    *)
(* still filters the days of that month by the target day.                 *)
C25_FallsBackToPreviousYear ==
    (/\ q.op = "get_closest_available_date"
     /\ q.result # Pending
     /\ q.target[1] \in Years(q.index)
     /\ \A m \in Months(q.index, q.target[1]) : m > q.target[2]) =>
        LET y == q.target[1] - 1
        IN  IF y \in Years(q.index)
            THEN LET m == Max(Months(q.index, y))
                 IN  q.result = Returned(<<y, m, Max(Days(q.index, y, m))>>)
            ELSE q.result.err # "none"

(* C26.  When the target month is indexed but has no indexed day <= the    *)
(* target day, get_closest_available_date returns the largest indexed day  *)
(* of month - 1 of the same year if that month is indexed, and fails if it *)
(* is not: for a target in January, and also when a month earlier than     *)
(* month - 1 is indexed.                                                   *)
C26_FallsBackToMonthBefore ==
    (/\ q.op = "get_closest_available_date"
     /\ q.result # Pending
     /\ Days(q.index, q.target[1], q.target[2]) # {}
     /\ \A d \in Days(q.index, q.target[1], q.target[2]) : d > q.target[3]) =>
        LET y == q.target[1]
            m == q.target[2] - 1
        IN  IF m \in Months(q.index, y)
            THEN q.result = Returned(<<y, m, Max(Days(q.index, y, m))>>)
            ELSE q.result.err \in {"KeyError", "ValueError"}

\* C26's case: a lookup has failed on a target whose month is indexed with
\* no day <= the target day, the month before it not indexed, an earlier
\* month of the year indexed.
C26_Witness ==
    /\ q.op = "get_closest_available_date"
    /\ Days(q.index, q.target[1], q.target[2]) # {}
    /\ \A d \in Days(q.index, q.target[1], q.target[2]) : d > q.target[3]
    /\ q.result.err = "KeyError"
    /\ \E x \in q.index : x[1] = q.target[1] /\ x[2] < q.target[2] - 1

(* C27.  During a replay daily_update is executed at most once per price   *)
(* date and in the order of the price file: every execution commits a      *)
(* snapshot for a date that has none yet and that is later than every date *)
(* committed before, and no transaction is applied after the snapshot of   *)
(* its own date has been committed.                                        *)
C27_CommitOnceInDateOrder ==
    [][/\ AtDailyUpdate =>
              /\ DailyUpdateDate \notin SnapshotDates
              /\ \A d \in SnapshotDates : DateLt(d, DailyUpdateDate)
              /\ SnapshotDates' = SnapshotDates \cup {DailyUpdateDate}
       /\ ~AtDailyUpdate => SnapshotDates' = SnapshotDates
       /\ TradeExecuted =>
              /\ applied'[Len(applied')].date \notin SnapshotDates'
              /\ \A d \in SnapshotDates' : DateLt(d, applied'[Len(applied')].date)
      ]_vars

\* C27's case: a completed replay that committed two dates, each after a
\* transaction of that date had been applied.
C27_Witness ==
    /\ pc = "done"
    /\ \E d1, d2 \in SnapshotDates : \E i, j \in 1..Len(applied) :
          /\ DateLt(d1, d2)
          /\ applied[i].date = d1
          /\ applied[j].date = d2

(* C28.  For every ticker, after every sequence of executed purchases and  *)
(* sales (sales from an empty position and sales of more than is held      *)
(* included), cash + cost of the position equals the sum of                *)
(* (price - average price before the sale) * qty over all executed sales   *)
(* of the ticker; a purchase leaves cash + cost unchanged.  This is the    *)
(* claim as it was made: each amount is rounded when it is added to the    *)
(* cash and to the cost, and the two sides can differ in their last bits.  *)
C28_CashPlusCostIsProfitOfSales ==
    /\ \A t \in all_tickers : CashPlusCost(t) = ProfitOfSales(t)
    /\ (applied # <<>> /\ LastTrade.order_type = "BUY") =>
           CashPlusCost(LastTrade.ticker) =
               RAdd(LastTrade.before.cash, LastTrade.before.cost)

\* The number of executed trades of a ticker, and the sum of the magnitudes
\* of the amounts they moved: price * qty to or from the cash, price * qty
\* to the cost for a purchase, average price * qty from it for a sale.
TradesOf(t) == Cardinality({i \in 1..Len(applied) : applied[i].ticker = t})
MovedOf(t) ==
    RSum([i \in 1..Len(applied) |->
             IF applied[i].ticker # t THEN RZero
             ELSE RAdd(RAbs(Proceeds(applied[i])),
                       IF IsSale(i) THEN RAbs(SaleCost(applied[i]))
                       ELSE RAbs(Proceeds(applied[i])))])

(* C28, amended.  For every ticker, after every sequence of executed        *)
(* purchases and sales (sales from an empty position and sales of more     *)
(* than is held included), cash + cost of the position equals the sum of   *)
(* (price - average price before the sale) * qty over all executed sales   *)
(* of the ticker up to floating tolerance, and a purchase leaves cash +    *)
(* cost unchanged up to it: the difference is no more than 2^-50 times the *)
(* number of executed trades of the ticker times the sum of the magnitudes *)
(* of the amounts they added to or took from the cash and the cost.        *)
C28_CashPlusCostUpToTolerance ==
    /\ \A t \in all_tickers :
           WithinRounding(CashPlusCost(t), ProfitOfSales(t),
                          4 * TradesOf(t), MovedOf(t))
    /\ (applied # <<>> /\ LastTrade.order_type = "BUY") =>
           WithinRounding(CashPlusCost(LastTrade.ticker),
                          RAdd(LastTrade.before.cash, LastTrade.before.cost),
                          4 * TradesOf(LastTrade.ticker), MovedOf(LastTrade.ticker))

\* C28's case: a ticker has been bought and sold, and its cash + cost is not
\* the sum of the profits of its sales.
C28_Witness ==
    \E t \in all_tickers : \E j, k \in 1..Len(applied) :
        /\ applied[j].ticker = t /\ applied[k].ticker = t
        /\ IsSale(j) /\ applied[j].before.qty > 0
        /\ applied[k].order_type = "BUY"
        /\ CashPlusCost(t) # ProfitOfSales(t)

(* C29.  In get_returns_timespan the return of a retained pair (prev, cur) *)
(* is the total percentage of get_profits_cost([prev, cur]), whose         *)
(* realized part holds the sells dated prev and the sells dated cur: a     *)
(* sell on a retained date that is neither the first nor the last retained *)
(* date is counted in the realized part of two consecutive returns.        *)
C29_PairReturnCountsBothDates ==
    (q.op = "get_returns_timespan" /\ q.dates # <<>>) =>
        LET R == RetainedOfCall
        IN  /\ Len(q.result.ret) = Max({0, Len(R) - 1})
            /\ \A i \in 1..Len(q.result.ret) :
                  LET r == get_profits_cost(sell_history, heap, inventory_snapshot,
                                            <<R[i], R[i + 1]>>, q.tickers)
                  IN  /\ q.result.ret[i] = r.total_profits_percent
                      /\ r.realized_profits = LedgerOfPair(R[i], R[i + 1])[1]
                      /\ r.realized_cost = LedgerOfPair(R[i], R[i + 1])[2]
                      /\ q.result.ret[i] = PairReturn(R[i], R[i + 1])

\* C29's case: a call has returned two returns over three retained dates,
\* the second of which has a sell at a profit; the profit is in the
\* realized part of both returns.
C29_Witness ==
    /\ q.op = "get_returns_timespan"
    /\ q.dates # <<>>
    /\ Len(q.result.ret) = 2
    /\ LET R == RetainedOfCall
       IN  /\ Len(R) = 3
           /\ LedgerProfit(R[1]) = RZero
           /\ LedgerProfit(R[3]) = RZero
           /\ LedgerProfit(R[2]) # RZero
           /\ LedgerCost(R[2]) # RZero
           /\ q.result.ret[1] = PairReturn(R[1], R[2])
           /\ q.result.ret[2] = PairReturn(R[2], R[3])
           /\ q.result.ret[2] # RZero

=============================================================================
